---- MODULE Spec2Model ----
(***************************************************************************)
(* Local-first day records of the power-plant logging app: the local       *)
(* keyed store (client/lib/storage.ts), its remote mirror                   *)
(* (client/lib/supabaseSync.ts) and the DayProvider that reconciles them    *)
(* on load and on save (client/contexts/DayContext.tsx), together with the  *)
(* save handler of the entry screens.                                       *)
(***************************************************************************)
EXTENDS Integers, Sequences, FiniteSets, TLC

(***************************************************************************)
(* Bounds of the exploration.                                               *)
(***************************************************************************)
MaxDay == 3        \* date keys are the consecutive calendar days 1..MaxDay
MaxEvents == 4     \* user inputs and environment faults in one behaviour

(***************************************************************************)
(* Program constants.                                                       *)
(***************************************************************************)
FEEDERS == <<"F2", "F3", "F4", "F5">>
TURBINES == <<"A", "B", "C", "S">>
FeederNames == {FEEDERS[i] : i \in 1..Len(FEEDERS)}
TurbineNames == {TURBINES[i] : i \in 1..Len(TURBINES)}

DateKeys == 1..MaxDay
BadKey == 9999                  \* a dateKey that new Date() cannot parse
NoKey == -9999                  \* getPreviousDateKey's "" (no previous date)
TodayKey == MaxDay              \* todayKey() on the device

TZOffsets == {-5, 3}            \* device time zone, hours east of UTC
\* Readings typed on the keypads: the fields the user touches and the text
\* they can hold after an edit
EditedFeeders == {"F2", "F5"}
EditedTurbines == {"A"}
EditVals == [start |-> {"", "5"}, end |-> {"", "7"},
             previous |-> {"", "5"}, present |-> {"", "7"}, hours |-> {"12"}]

NoUser == "none"
UserId == "u1"

Null == [kind |-> "null"]

(***************************************************************************)
(* DayData and its default.                                                 *)
(***************************************************************************)
defaultDay(dateKey) ==
  [dateKey |-> dateKey,
   feeders |-> [f \in FeederNames |-> [start |-> "", end |-> ""]],
   turbines |-> [t \in TurbineNames |-> [previous |-> "", present |-> "", hours |-> "24"]]]

\* JSON.stringify / JSON.parse of a stored value: the text wraps the value
Stringify(v) == [kind |-> "json", val |-> v]
Parse(raw) == raw.val

\* floor division, also for negative numerators
FloorDiv(a, b) == IF a >= 0 THEN a \div b ELSE -((-a + b - 1) \div b)

\* new Date(dateKey) reads a date-only key as UTC midnight; getDate/setDate
\* and the formatting work in device-local time
getPreviousDateKeyTZ(dateKey, offset) ==
  IF dateKey = BadKey THEN NoKey
  ELSE LET utcHours == dateKey * 24
           localDay == FloorDiv(utcHours + offset, 24)
       IN localDay - 1

VARIABLES
  tz,         \* device time-zone offset
  user,       \* useAuth().user?.id
  dateKey,    \* DayProvider state
  day,        \* DayProvider state
  loading,    \* DayProvider state
  syncing,    \* DayProvider state
  localDay,   \* AsyncStorage: day records by date key (raw text or Null)
  dayIndex,   \* AsyncStorage: the index key (raw text or Null)
  rDaily,     \* remote daily_data rows of the user (by date key)
  rFeeders,   \* remote feeders rows by day row and feeder name
  rTurbines,  \* remote turbines rows by day row and turbine name
  ld,         \* the loadDay call in flight
  sv,         \* the handleSave / saveDay call in flight
  isSaving,   \* the screen's save lock (saveLockRef / isSaving)
  notice,     \* last notification shown by the screen
  lk,         \* the last getDayDataWithLinkedValues call and what it read
  budget,     \* user inputs and environment faults still allowed
  days,       \* MonthDaysModal: the listed days (by date key)
  del,        \* MonthDaysModal: the confirmDelete call in flight
  xp,         \* the JSON bundle of exportAllData and what became of it
  calc,       \* the records handed to the derivations and what they gave
  kp,         \* HoursInputField: tempValue, showKeypad and the committed value
  locks,      \* the lock refs of MonthDaysModal and of the entry screens
  syncs,      \* syncDayToSupabase calls in flight side by side
  ops,        \* saveDayData / deleteDayData calls in flight side by side
  loads,      \* DayProvider: loadDay calls in flight side by side, and the last saveDay
  rtl         \* rtl-bootstrap: the stored language, direction and reload flag, the native direction

vars == <<tz, user, dateKey, day, loading, syncing, localDay, dayIndex,
          rDaily, rFeeders, rTurbines, ld, sv, isSaving, notice, lk, budget,
          days, del, xp, calc, kp, locks,
          syncs,
          ops,
          loads,
          rtl>>

\* what neither the entry screens nor the month listing touch
aside == <<xp, calc, kp, locks, syncs, ops, loads, rtl>>

\* what the entry screens and DayProvider never touch
offscreen == <<days, del, aside>>

local == <<localDay, dayIndex>>
remote == <<rDaily, rFeeders, rTurbines>>
screen == <<isSaving, notice>>

getPreviousDateKey(k) == getPreviousDateKeyTZ(k, tz)

(***************************************************************************)
(* Local storage reads (client/lib/storage.ts).                             *)
(***************************************************************************)
\* AsyncStorage.getItem(storageKey(k)): null for a key never written
getItem(k) == IF k \in DOMAIN localDay THEN localDay[k] ELSE Null

\* { ...a, ...b }
Spread(a, b) ==
  [k \in (DOMAIN a) \cup (DOMAIN b) |-> IF k \in DOMAIN b THEN b[k] ELSE a[k]]

\* readFails: AsyncStorage.getItem throws
getDayData(k, readFails) ==
  IF readFails THEN defaultDay(k)
  ELSE IF getItem(k) # Null THEN Spread(defaultDay(k), Parse(getItem(k)))
  ELSE defaultDay(k)

\* prevDay.feeders?.[f]?.end and prevDay.turbines?.[t]?.present
PrevEnd(prevDay, f) ==
  IF "feeders" \in DOMAIN prevDay /\ f \in DOMAIN prevDay.feeders
  THEN prevDay.feeders[f].end ELSE ""
PrevPresent(prevDay, t) ==
  IF "turbines" \in DOMAIN prevDay /\ t \in DOMAIN prevDay.turbines
  THEN prevDay.turbines[t].present ELSE ""

\* linkedFeeders with the test of today's start left out
linkedFeeders_Overwrite(currentDay, prevDay) ==
  [f \in DOMAIN currentDay.feeders |->
     IF f \in FeederNames /\ PrevEnd(prevDay, f) # ""
     THEN [currentDay.feeders[f] EXCEPT !.start = PrevEnd(prevDay, f)]
     ELSE currentDay.feeders[f]]

\* a key the stored record lacks reads as undefined, and { ...undefined,
\* start: prevEnd } has no other field
linkedFeeders(currentDay, prevDay) ==
  LET cur == currentDay.feeders
      Links(f) == /\ PrevEnd(prevDay, f) # ""
                  /\ (f \notin DOMAIN cur \/ cur[f].start = "")
  IN [f \in (DOMAIN cur) \cup {g \in FeederNames : Links(g)} |->
        IF f \in FeederNames /\ Links(f)
        THEN IF f \in DOMAIN cur
             THEN [cur[f] EXCEPT !.start = PrevEnd(prevDay, f)]
             ELSE [start |-> PrevEnd(prevDay, f)]
        ELSE cur[f]]

linkedTurbines(currentDay, prevDay) ==
  LET cur == currentDay.turbines
      Links(t) == /\ PrevPresent(prevDay, t) # ""
                  /\ (t \notin DOMAIN cur \/ cur[t].previous = "")
  IN [t \in (DOMAIN cur) \cup {g \in TurbineNames : Links(g)} |->
        IF t \in TurbineNames /\ Links(t)
        THEN IF t \in DOMAIN cur
             THEN [cur[t] EXCEPT !.previous = PrevPresent(prevDay, t)]
             ELSE [previous |-> PrevPresent(prevDay, t)]
        ELSE cur[t]]

\* getDayDataWithLinkedValues whose catch returns a fresh default day
getDayDataWithLinkedValues_CatchDefault(k, curFails, prevFails) ==
  LET currentDay == getDayData(k, curFails)
      prevDateKey == getPreviousDateKey(k)
  IN IF prevDateKey = NoKey THEN currentDay
     ELSE IF prevFails THEN defaultDay(k)
     ELSE IF getItem(prevDateKey) = Null THEN currentDay
     ELSE LET prevDay == Parse(getItem(prevDateKey))
          IN [currentDay EXCEPT !.feeders = linkedFeeders(currentDay, prevDay),
                                !.turbines = linkedTurbines(currentDay, prevDay)]

\* curFails / prevFails: the read of today's / of the previous record throws
getDayDataWithLinkedValues(k, curFails, prevFails) ==
  LET currentDay == getDayData(k, curFails)
      prevDateKey == getPreviousDateKey(k)
  IN IF prevDateKey = NoKey THEN currentDay
     ELSE IF prevFails THEN currentDay
     ELSE IF getItem(prevDateKey) = Null THEN currentDay
     ELSE LET prevDay == Parse(getItem(prevDateKey))
          IN [currentDay EXCEPT !.feeders = linkedFeeders(currentDay, prevDay),
                                !.turbines = linkedTurbines(currentDay, prevDay)]

(***************************************************************************)
(* Remote reads (client/lib/supabaseSync.ts).                               *)
(***************************************************************************)
NoRow == [has |-> FALSE]
FeederRow(fd) == [has |-> TRUE, start_reading |-> fd.start, end_reading |-> fd.end]
TurbineRow(td) ==
  [has |-> TRUE, previous_reading |-> td.previous, present_reading |-> td.present,
   hours |-> td.hours]

\* found?.column || fallback
Col(row, col, fallback) ==
  IF row.has /\ row[col] # "" THEN row[col] ELSE fallback

FetchFaults == {"none", "day", "feeders", "turbines", "throw"}

\* fault: which query of the fetch fails ("throw": the client raises)
fetchDayFromSupabase(k, fault) ==
  IF fault = "throw" THEN Null
  ELSE IF fault = "day" THEN Null
  ELSE IF k \notin rDaily THEN Null
  ELSE [dateKey |-> k,
        feeders |-> [f \in FeederNames |->
           LET found == IF fault = "feeders" THEN NoRow ELSE rFeeders[k][f]
           IN [start |-> Col(found, "start_reading", ""),
               end |-> Col(found, "end_reading", "")]],
        turbines |-> [t \in TurbineNames |->
           LET found == IF fault = "turbines" THEN NoRow ELSE rTurbines[k][t]
           IN [previous |-> Col(found, "previous_reading", ""),
               present |-> Col(found, "present_reading", ""),
               hours |-> Col(found, "hours", "24")]]]

\* the linking loops of loadDay with the tests of today's values left out
cloudLinked_Overwrite(cloudData, prevCloudData) ==
  [cloudData EXCEPT
     !.feeders = [f \in FeederNames |->
        IF prevCloudData.feeders[f].end # ""
        THEN [cloudData.feeders[f] EXCEPT !.start = prevCloudData.feeders[f].end]
        ELSE cloudData.feeders[f]],
     !.turbines = [t \in TurbineNames |->
        IF prevCloudData.turbines[t].present # ""
        THEN [cloudData.turbines[t] EXCEPT !.previous = prevCloudData.turbines[t].present]
        ELSE cloudData.turbines[t]]]

\* the linking loops of loadDay over cloudData and prevCloudData
cloudLinked(cloudData, prevCloudData) ==
  [cloudData EXCEPT
     !.feeders = [f \in FeederNames |->
        IF prevCloudData.feeders[f].end # "" /\ cloudData.feeders[f].start = ""
        THEN [cloudData.feeders[f] EXCEPT !.start = prevCloudData.feeders[f].end]
        ELSE cloudData.feeders[f]],
     !.turbines = [t \in TurbineNames |->
        IF prevCloudData.turbines[t].present # "" /\ cloudData.turbines[t].previous = ""
        THEN [cloudData.turbines[t] EXCEPT !.previous = prevCloudData.turbines[t].present]
        ELSE cloudData.turbines[t]]]

(***************************************************************************)
(* The day index (client/lib/storage.ts).                                   *)
(***************************************************************************)
RECURSIVE InsertSorted(_, _)
InsertSorted(s, x) ==
  IF s = <<>> THEN <<x>>
  ELSE IF x <= Head(s) THEN <<x>> \o s
  ELSE <<Head(s)>> \o InsertSorted(Tail(s), x)

\* Array.prototype.sort on an array of date keys
RECURSIVE SortKeys(_)
SortKeys(s) == IF s = <<>> THEN <<>> ELSE InsertSorted(SortKeys(Tail(s)), Head(s))

Includes(s, x) == \E i \in 1..Len(s) : s[i] = x

\* readFails: AsyncStorage.getItem throws
getDayIndex(readFails) ==
  IF readFails \/ dayIndex = Null THEN <<>> ELSE Parse(dayIndex)

\* the index text after upsertDayIndex(k); a failed write is swallowed
upsertDayIndex(k, readFails, writeFails) ==
  LET arr == getDayIndex(readFails)
  IN IF Includes(arr, k) \/ writeFails THEN dayIndex
     ELSE Stringify(SortKeys(Append(arr, k)))

(***************************************************************************)
(* Initial state: DayProvider mounted on today's date with empty stores,    *)
(* its first loadDay pending, nothing being saved.                          *)
(***************************************************************************)
NewLoad(k, u) ==
  [pc |-> "local", key |-> k, user |-> u, data |-> Null, local |-> Null,
   cloud |-> Null, prevCloud |-> Null, fault |-> "none", prevFault |-> "none",
   readFails |-> FALSE, calls |-> 0, snap |-> getItem(k)]

IdleSave ==
  [pc |-> "idle", day |-> Null, user |-> NoUser, localDone |-> FALSE,
   localFailed |-> FALSE, remoteIssued |-> FALSE, sync |-> "none", outcome |-> "none"]

NoCall ==
  [called |-> FALSE, key |-> NoKey, curFails |-> FALSE, prevFails |-> FALSE,
   cur |-> Null, prevRaw |-> Null, out |-> Null]

NoDelete ==
  [pc |-> "idle", key |-> NoKey, issued |-> <<>>, before |-> Null,
   failedAt |-> "none", outcome |-> "none"]

NoBundle ==
  [stage |-> "none", json |-> Null, source |-> Null, once |-> Null, twice |-> Null]

\* nothing handed to the derivations
NoCalc == [day |-> Null, allDays |-> <<>>, out |-> Null]

\* useState initialisers of HoursInputField over the default hours "24"; a
\* text is the sequence of its characters. last and typed record the latest
\* commit, prior the value shown when the keypad was opened, pressed whether
\* a digit key was pressed since
KeypadClosed ==
  [showKeypad |-> FALSE, tempValue |-> <<>>, value |-> <<"2", "4">>,
   last |-> "none", typed |-> <<>>, prior |-> <<"2", "4">>, pressed |-> FALSE]

\* the screens with a save button
Screens == {"feeders", "turbines"}

\* useRef(false) and useState initialisers of the locks: no confirmation
\* dialog open, no confirmDelete and no handleSave in flight. ignored and
\* released record what became of the triggers so far
NoLocks ==
  [deleteLockRef |-> FALSE, deletingId |-> NoKey, alerts |-> <<>>, deleting |-> <<>>,
   saveLockRef |-> [s \in Screens |-> FALSE], isSaving |-> [s \in Screens |-> FALSE],
   saving |-> [s \in Screens |-> 0], ignored |-> FALSE, released |-> {}]

\* who may call syncDayToSupabase side by side: saveDay from either screen
Callers == Screens

\* no syncDayToSupabase call made
NoSyncs == [c \in Callers |-> [pc |-> "idle", day |-> Null, at |-> 1, result |-> "none"]]

\* two async calls on the local store that may overlap
Tasks == {"first", "second"}

\* no saveDayData and no deleteDayData call made; arr is the index array a
\* call holds between its read and its write
NoOps == [w \in Tasks |-> [kind |-> "none", pc |-> "idle", key |-> NoKey, arr |-> <<>>]]

\* no loadDay in flight; saved tells which date the day in memory was
\* loaded for (from) and which date it was stored under by the last saveDay
NoLoads == [inflight |-> <<>>, saved |-> [from |-> NoKey, under |-> NoKey]]

\* the app not yet installed: nothing under LANGUAGE_KEY, DIRECTION_KEY and
\* RELOAD_ATTEMPT_KEY. isRTL is I18nManager.isRTL of the running process,
\* forced what forceRTL asked of the next start; chain counts the reloads
\* initializeRTL made in a row, setBy, found and result record who set the
\* flag, what the last initializeRTL found and what it returned
NoRTL ==
  [phase |-> "none", lang |-> "none", dir |-> "none", attempt |-> FALSE,
   isRTL |-> FALSE, forced |-> FALSE, chain |-> 0, setBy |-> "none",
   found |-> [attempt |-> FALSE, matched |-> TRUE, dirOk |-> FALSE, setBy |-> "none"],
   result |-> [manual |-> FALSE, reloaded |-> FALSE, attempt |-> FALSE]]

\* MonthDaysModal before it is shown; nothing exported, computed or keyed in
ModalClosed ==
  /\ days = {}
  /\ del = NoDelete
  /\ xp = NoBundle
  /\ calc = NoCalc
  /\ kp = KeypadClosed
  /\ locks = NoLocks
  /\ rtl = NoRTL
  /\ loads = NoLoads
  /\ ops = NoOps
  /\ syncs = NoSyncs

\* useState initialisers of DayProvider and of the screens
Mounted ==
  /\ dateKey = TodayKey
  /\ day = defaultDay(TodayKey)
  /\ loading = TRUE
  /\ syncing = FALSE
  /\ sv = IdleSave
  /\ isSaving = FALSE
  /\ notice = "none"
  /\ lk = NoCall

Init ==
  /\ tz \in TZOffsets
  /\ user \in {NoUser, UserId}
  /\ localDay = [k \in DateKeys |-> Null]
  /\ dayIndex = Null
  /\ rDaily = {}
  /\ rFeeders = [k \in DateKeys |-> [f \in FeederNames |-> NoRow]]
  /\ rTurbines = [k \in DateKeys |-> [t \in TurbineNames |-> NoRow]]
  /\ Mounted
  /\ ld = NewLoad(TodayKey, user)
  /\ budget = MaxEvents
  /\ ModalClosed

Spend == budget' = budget - 1

\* the user acts on a screen that shows no spinner
Settled == ld.pc = "done" /\ sv.pc = "idle"

(***************************************************************************)
(* User input on the entry screens.                                         *)
(***************************************************************************)
\* NumericInputField onChangeValue of a feeder reading
EditFeeder ==
  \E f \in EditedFeeders, fld \in {"start", "end"} : \E v \in EditVals[fld] :
    /\ budget > 0
    /\ Settled
    /\ day.feeders[f][fld] # v
    /\ day' = [day EXCEPT !.feeders[f][fld] = v]
    /\ Spend
    /\ UNCHANGED <<offscreen, tz, user, dateKey, loading, syncing, local, remote, ld, sv,
                   screen, lk>>

\* NumericInputField / HoursInputField onChangeValue of a turbine reading
EditTurbine ==
  \E t \in EditedTurbines, fld \in {"previous", "present", "hours"} :
    \E v \in EditVals[fld] :
      /\ budget > 0
      /\ Settled
      /\ day.turbines[t][fld] # v
      /\ day' = [day EXCEPT !.turbines[t][fld] = v]
      /\ Spend
      /\ UNCHANGED <<offscreen, tz, user, dateKey, loading, syncing, local, remote, ld, sv,
                     screen, lk>>

\* resetDay
ResetDay ==
  /\ budget > 0
  /\ Settled
  /\ day # defaultDay(dateKey)
  /\ day' = defaultDay(dateKey)
  /\ Spend
  /\ UNCHANGED <<offscreen, tz, user, dateKey, loading, syncing, local, remote, ld, sv,
                 screen, lk>>

(***************************************************************************)
(* loadDay (client/contexts/DayContext.tsx), run by the effect on           *)
(* [dateKey, user?.id].                                                     *)
(***************************************************************************)
\* setDateKey from the date controls of a screen; the effect starts loadDay
SetDateKey ==
  \E k \in DateKeys :
    /\ budget > 0
    /\ Settled
    /\ k # dateKey
    /\ dateKey' = k
    /\ loading' = TRUE
    /\ ld' = NewLoad(k, user)
    /\ Spend
    /\ UNCHANGED <<offscreen, tz, user, day, syncing, local, remote, sv, screen, lk>>

\* the session appears or disappears; the effect starts loadDay
AuthChange ==
  \E u \in {NoUser, UserId} :
    /\ budget > 0
    /\ Settled
    /\ u # user
    /\ user' = u
    /\ loading' = TRUE
    /\ ld' = NewLoad(dateKey, u)
    /\ Spend
    /\ UNCHANGED <<offscreen, tz, dateKey, day, syncing, local, remote, sv, screen, lk>>

\* the app is closed and opened again: DayProvider mounts anew over the
\* stores as they are
Relaunch ==
  /\ budget > 0
  /\ Settled
  /\ dateKey' = TodayKey
  /\ day' = defaultDay(TodayKey)
  /\ loading' = TRUE
  /\ syncing' = FALSE
  /\ sv' = IdleSave
  /\ isSaving' = FALSE
  /\ notice' = "none"
  /\ lk' = NoCall
  /\ ld' = NewLoad(TodayKey, user)
  /\ Spend
  /\ UNCHANGED <<offscreen, tz, user, local, remote>>

\* setDay(data); setLoading(false)
LoadDone(l) ==
  /\ ld' = [l EXCEPT !.pc = "done"]
  /\ day' = l.data
  /\ loading' = FALSE

\* what a call getDayDataWithLinkedValues(k) reads and returns
LinkCall(k, curFails, prevFails) ==
  LET prevKey == getPreviousDateKey(k)
  IN [called |-> TRUE, key |-> k, curFails |-> curFails, prevFails |-> prevFails,
      cur |-> getDayData(k, curFails),
      prevRaw |-> IF prevKey = NoKey \/ prevFails THEN Null ELSE getItem(prevKey),
      out |-> getDayDataWithLinkedValues(k, curFails, prevFails)]

\* loadDay going on to the remote fetch without testing user?.id
LoadLocal_AlwaysFetch ==
  \E curFails \in BOOLEAN, prevFails \in BOOLEAN :
    /\ ld.pc = "local"
    /\ lk' = LinkCall(ld.key, curFails, prevFails)
    /\ ld' = [ld EXCEPT !.data = lk'.out, !.local = lk'.out,
                        !.readFails = curFails \/ prevFails, !.pc = "fetch"]
    /\ UNCHANGED <<offscreen, tz, user, dateKey, day, loading, syncing, local, remote, sv,
                   screen, budget>>

\* loadDay storing the linked record it has just computed
LoadLocal_Persists ==
  \E curFails \in BOOLEAN, prevFails \in BOOLEAN :
    /\ ld.pc = "local"
    /\ lk' = LinkCall(ld.key, curFails, prevFails)
    /\ localDay' = [localDay EXCEPT ![ld.key] = Stringify(lk'.out)]
    /\ LET l == [ld EXCEPT !.data = lk'.out, !.local = lk'.out,
                           !.readFails = curFails \/ prevFails]
       IN IF ld.user # NoUser
          THEN /\ ld' = [l EXCEPT !.pc = "fetch"]
               /\ UNCHANGED <<day, loading>>
          ELSE LoadDone(l)
    /\ UNCHANGED <<offscreen, tz, user, dateKey, syncing, dayIndex, remote, sv, screen, budget>>

\* let data = await getDayDataWithLinkedValues(dateKey)
LoadLocal ==
  \E curFails \in BOOLEAN, prevFails \in BOOLEAN :
    /\ ld.pc = "local"
    /\ lk' = LinkCall(ld.key, curFails, prevFails)
    /\ LET l == [ld EXCEPT !.data = lk'.out, !.local = lk'.out,
                           !.readFails = curFails \/ prevFails]
       IN IF ld.user # NoUser
          THEN /\ ld' = [l EXCEPT !.pc = "fetch"]
               /\ UNCHANGED <<day, loading>>
          ELSE LoadDone(l)
    /\ UNCHANGED <<offscreen, tz, user, dateKey, syncing, local, remote, sv, screen, budget>>

\* const cloudData = await fetchDayFromSupabase(user.id, dateKey)
LoadFetch ==
  \E fault \in FetchFaults :
    /\ ld.pc = "fetch"
    /\ LET cloudData == fetchDayFromSupabase(ld.key, fault)
           l == [ld EXCEPT !.cloud = cloudData, !.fault = fault, !.calls = @ + 1]
       IN IF cloudData = Null THEN LoadDone(l)
          ELSE IF getPreviousDateKey(ld.key) = NoKey
          THEN LoadDone([l EXCEPT !.data = cloudData])
          ELSE /\ ld' = [l EXCEPT !.pc = "fetchPrev"]
               /\ UNCHANGED <<day, loading>>
    /\ UNCHANGED <<offscreen, tz, user, dateKey, syncing, local, remote, sv, screen, lk, budget>>

\* const prevCloudData = await fetchDayFromSupabase(user.id, prevDateKey)
LoadFetchPrev ==
  \E fault \in FetchFaults :
    /\ ld.pc = "fetchPrev"
    /\ LET prevCloudData == fetchDayFromSupabase(getPreviousDateKey(ld.key), fault)
           l == [ld EXCEPT !.prevCloud = prevCloudData, !.prevFault = fault,
                           !.calls = @ + 1]
       IN IF prevCloudData = Null
          THEN LoadDone([l EXCEPT !.data = l.cloud])
          ELSE LoadDone([l EXCEPT !.data = cloudLinked(l.cloud, prevCloudData)])
    /\ UNCHANGED <<offscreen, tz, user, dateKey, syncing, local, remote, sv, screen, lk, budget>>

(***************************************************************************)
(* handleSave of the entry screens, saveDay of DayProvider, saveDayData     *)
(* and syncDayToSupabase.                                                   *)
(***************************************************************************)
\* handleSave up to the first await of saveDay: dayToSave = { ...day, dateKey }
HandleSave ==
  /\ budget > 0
  /\ Settled
  /\ ~isSaving
  /\ isSaving' = TRUE
  /\ sv' = [IdleSave EXCEPT !.pc = "local",
                            !.day = [day EXCEPT !.dateKey = dateKey],
                            !.user = user]
  /\ Spend
  /\ UNCHANGED <<offscreen, tz, user, dateKey, day, loading, syncing, local, remote, ld,
                 notice, lk>>

\* saveDay has resolved: handleSave shows the success notification and
\* releases the lock
SaveResolved(s) ==
  /\ sv' = [s EXCEPT !.pc = "idle", !.outcome = "resolved"]
  /\ notice' = "success"
  /\ isSaving' = FALSE

\* saveDay has rejected: handleSave's catch shows the error notification
SaveRejected(s) ==
  /\ sv' = [s EXCEPT !.pc = "idle", !.outcome = "rejected"]
  /\ notice' = "error"
  /\ isSaving' = FALSE

\* saveDay starting the remote mirror without testing user?.id
SaveLocalOk_AlwaysSync ==
  /\ sv.pc = "local"
  /\ localDay' = [localDay EXCEPT ![sv.day.dateKey] = Stringify(sv.day)]
  /\ dayIndex' = upsertDayIndex(sv.day.dateKey, FALSE, FALSE)
  /\ sv' = [sv EXCEPT !.pc = "select", !.localDone = TRUE]
  /\ syncing' = TRUE
  /\ UNCHANGED <<offscreen, tz, user, dateKey, day, loading, remote, ld, lk, screen, budget>>

\* await saveDayData(dayToSave), both writes succeeding or the index one failing
SaveLocalOk ==
  \E idxReadFails \in BOOLEAN, idxWriteFails \in BOOLEAN :
    /\ sv.pc = "local"
    /\ ~(idxReadFails /\ idxWriteFails)
    /\ (idxReadFails \/ idxWriteFails) => budget > 0
    /\ budget' = IF idxReadFails \/ idxWriteFails THEN budget - 1 ELSE budget
    /\ localDay' = [localDay EXCEPT ![sv.day.dateKey] = Stringify(sv.day)]
    /\ dayIndex' = upsertDayIndex(sv.day.dateKey, idxReadFails, idxWriteFails)
    /\ IF sv.user # NoUser
       THEN /\ sv' = [sv EXCEPT !.pc = "select", !.localDone = TRUE]
            /\ syncing' = TRUE
            /\ UNCHANGED screen
       ELSE /\ SaveResolved([sv EXCEPT !.localDone = TRUE])
            /\ UNCHANGED syncing
    /\ UNCHANGED <<offscreen, tz, user, dateKey, day, loading, remote, ld, lk>>

\* saveDayData logging the failed write without rethrowing it
SaveLocalFail_Swallowed ==
  /\ sv.pc = "local"
  /\ budget > 0
  /\ Spend
  /\ IF sv.user # NoUser
     THEN /\ sv' = [sv EXCEPT !.pc = "select", !.localFailed = TRUE]
          /\ syncing' = TRUE
          /\ UNCHANGED screen
     ELSE /\ SaveResolved([sv EXCEPT !.localFailed = TRUE])
          /\ UNCHANGED syncing
  /\ UNCHANGED <<offscreen, tz, user, dateKey, day, loading, local, remote, ld, lk>>

\* AsyncStorage.setItem of the day record throws: saveDayData rethrows
SaveLocalFail ==
  /\ sv.pc = "local"
  /\ budget > 0
  /\ Spend
  /\ SaveRejected([sv EXCEPT !.localFailed = TRUE])
  /\ UNCHANGED <<offscreen, tz, user, dateKey, day, loading, syncing, local, remote, ld, lk>>

\* saveDay without its catch and finally around the sync
SyncReturn_Raises(s, result) ==
  IF result = "false"
  THEN /\ UNCHANGED syncing
       /\ SaveRejected([s EXCEPT !.sync = result])
  ELSE /\ syncing' = FALSE
       /\ SaveResolved([s EXCEPT !.sync = result])

\* syncDayToSupabase has returned: saveDay's finally, then handleSave
SyncReturn(s, result) ==
  /\ syncing' = FALSE
  /\ SaveResolved([s EXCEPT !.sync = result])

SyncFaults == {"none", "error", "throw"}

\* the passes of a loop at which a fault is injected: the first and the last
FaultAt(names) == {1, Len(names)}

Faulty(fault) ==
  /\ fault # "none" => budget > 0
  /\ budget' = IF fault # "none" THEN budget - 1 ELSE budget

\* select id from daily_data where user_id, date_key .single()
SyncSelect ==
  \E fault \in SyncFaults :
    /\ sv.pc = "select"
    /\ Faulty(fault)
    /\ LET s == [sv EXCEPT !.remoteIssued = TRUE]
       IN IF fault # "none" THEN SyncReturn(s, "false")
          ELSE /\ sv' = [s EXCEPT !.pc = IF sv.day.dateKey \in rDaily
                                          THEN "feeders" ELSE "insert"]
               /\ UNCHANGED <<syncing, screen>>
    /\ UNCHANGED <<offscreen, tz, user, dateKey, day, loading, local, remote, ld, lk>>

\* insert into daily_data (user_id, date_key)
SyncInsert ==
  \E fault \in SyncFaults :
    /\ sv.pc = "insert"
    /\ Faulty(fault)
    /\ IF fault # "none"
       THEN /\ SyncReturn(sv, "false")
            /\ UNCHANGED rDaily
       ELSE /\ rDaily' = rDaily \cup {sv.day.dateKey}
            /\ sv' = [sv EXCEPT !.pc = "feeders"]
            /\ UNCHANGED <<syncing, screen>>
    /\ UNCHANGED <<offscreen, tz, user, dateKey, day, loading, local, rFeeders, rTurbines,
                   ld, lk>>

\* the rows a loop of upserts leaves behind: every name before position
\* `at` is written, the one at `at` is not when its upsert fails, and the
\* ones after it are written unless the client raised at `at`
Upserted(rows, names, fault, at, rowOf) ==
  [n \in DOMAIN rows |->
     LET pos == CHOOSE i \in 1..Len(names) : names[i] = n
     IN IF fault = "none" \/ pos < at \/ (fault = "error" /\ pos > at)
        THEN rowOf[n] ELSE rows[n]]

\* the loop over FEEDERS: upsert on (daily_data_id, feeder_name); an error
\* result is logged and the loop goes on, a raised error leaves through the
\* catch of syncDayToSupabase
SyncFeeders ==
  \E fault \in SyncFaults, at \in FaultAt(FEEDERS) :
    /\ sv.pc = "feeders"
    /\ fault = "none" => at = 1
    /\ Faulty(fault)
    /\ LET k == sv.day.dateKey
           rowOf == [f \in FeederNames |-> FeederRow(sv.day.feeders[f])]
       IN rFeeders' = [rFeeders EXCEPT ![k] = Upserted(@, FEEDERS, fault, at, rowOf)]
    /\ IF fault = "throw" THEN SyncReturn(sv, "false")
       ELSE /\ sv' = [sv EXCEPT !.pc = "turbines"]
            /\ UNCHANGED <<syncing, screen>>
    /\ UNCHANGED <<offscreen, tz, user, dateKey, day, loading, local, rDaily, rTurbines, ld, lk>>

\* the loop over TURBINES, then return true
SyncTurbines ==
  \E fault \in SyncFaults, at \in FaultAt(TURBINES) :
    /\ sv.pc = "turbines"
    /\ fault = "none" => at = 1
    /\ Faulty(fault)
    /\ LET k == sv.day.dateKey
           rowOf == [t \in TurbineNames |-> TurbineRow(sv.day.turbines[t])]
       IN rTurbines' = [rTurbines EXCEPT ![k] = Upserted(@, TURBINES, fault, at, rowOf)]
    /\ IF fault = "throw" THEN SyncReturn(sv, "false")
       ELSE SyncReturn(sv, "true")
    /\ UNCHANGED <<offscreen, tz, user, dateKey, day, loading, local, rDaily, rFeeders, ld, lk>>

Next ==
  \/ EditFeeder
  \/ EditTurbine
  \/ ResetDay
  \/ SetDateKey
  \/ AuthChange
  \/ Relaunch
  \/ LoadLocal
  \/ LoadFetch
  \/ LoadFetchPrev
  \/ HandleSave
  \/ SaveLocalOk
  \/ SaveLocalFail
  \/ SyncSelect
  \/ SyncInsert
  \/ SyncFeeders
  \/ SyncTurbines

Spec == Init /\ [][Next]_vars

TypeOK ==
  /\ ld.pc \in {"local", "fetch", "fetchPrev", "done"}
  /\ sv.pc \in {"idle", "local", "select", "insert", "feeders", "turbines"}
  /\ budget \in 0..MaxEvents

(***************************************************************************)
(* Claims on saving and on what a load may change.                          *)
(***************************************************************************)
\* every reading that is non-empty in the record is the same in the day
Covers(d, record) ==
  /\ \A f \in FeederNames :
       /\ record.feeders[f].start # "" => d.feeders[f].start = record.feeders[f].start
       /\ record.feeders[f].end # "" => d.feeders[f].end = record.feeders[f].end
  /\ \A t \in TurbineNames :
       /\ record.turbines[t].previous # "" =>
            d.turbines[t].previous = record.turbines[t].previous
       /\ record.turbines[t].present # "" =>
            d.turbines[t].present = record.turbines[t].present
       /\ record.turbines[t].hours # "" => d.turbines[t].hours = record.turbines[t].hours

\* C1: once saveDay has written date D locally, a later loadDay of D (none of
\* whose reads fails, no save of D in between) yields a day that has every
\* non-empty reading of the saved record, with or without a session and
\* whatever became of the remote mirror step.
C1_SavedDayIsDurable ==
  (ld.pc = "done" /\ ld.snap # Null /\ ~ld.readFails
     /\ ld.fault = "none" /\ ld.prevFault = "none")
  => Covers(ld.data, Parse(ld.snap))

\* C2: when the remote mirror step of a save fails, the record written to
\* local storage stays as written, saveDay resolves, the screen reports
\* success and the syncing flag is false afterwards.
C2_RemoteFailureIsolated ==
  /\ sv.localDone => localDay[sv.day.dateKey] = Stringify(sv.day)
  /\ (sv.pc = "idle" /\ sv.sync = "false") =>
       /\ sv.outcome = "resolved"
       /\ notice = "success"
       /\ ~syncing
       /\ ~isSaving

C2_Witness ==
  /\ sv.pc = "idle" /\ sv.sync = "false" /\ sv.localDone
  /\ sv.day # defaultDay(sv.day.dateKey)

\* C3: when the local write of the day record fails, saveDay rejects, the
\* screen shows the error notification and not the success one, nothing is
\* stored and no remote call is made for that save.
C3_LocalFailurePropagates ==
  /\ sv.localFailed =>
       /\ sv.pc = "idle"
       /\ sv.outcome = "rejected"
       /\ notice = "error"
       /\ ~sv.remoteIssued
       /\ ~sv.localDone
  /\ (sv.pc = "idle" /\ sv.outcome = "resolved") => sv.localDone

C3_Witness ==
  sv.localFailed /\ sv.user # NoUser /\ notice = "error"

\* C4: within a save the local write has completed before the first remote
\* call is issued, and remote calls are issued only for a save started with a
\* session.
C4_LocalBeforeRemote ==
  /\ sv.pc \in {"select", "insert", "feeders", "turbines"} =>
       sv.localDone /\ sv.user # NoUser
  /\ sv.remoteIssued =>
       /\ sv.localDone
       /\ sv.user # NoUser
       /\ localDay[sv.day.dateKey] = Stringify(sv.day)
  /\ (sv.pc = "idle" /\ sv.outcome = "resolved" /\ sv.user = NoUser) =>
       ~sv.remoteIssued /\ sv.sync = "none"

C4_Witness ==
  sv.pc = "idle" /\ sv.remoteIssued /\ sv.sync = "true"

\* C6: when the remote fetch of the current day fails with an error at one
\* of its queries (day row, feeder rows, turbine rows), loadDay ends with the
\* locally loaded and locally linked record.
C6_FetchErrorFallsBackToLocal ==
  (ld.pc = "done" /\ ld.fault \in {"day", "feeders", "turbines"})
  => ld.data = ld.local

stores == <<localDay, dayIndex, rDaily, rFeeders, rTurbines>>

\* C8: no step of loadDay (getDayDataWithLinkedValues included) writes to
\* local storage or to the remote store, and the stores change only inside a
\* save that was explicitly started.
C8_LoadsAreReadOnly ==
  [][/\ (ld.pc # "done" /\ ld' # ld) => UNCHANGED stores
     /\ stores' # stores => sv.pc # "idle"]_vars

\* a load has filled a blank start from the previous day while the stored
\* record of the loaded date still has it blank
C8_Witness ==
  /\ ld.pc = "done"
  /\ \E f \in FeederNames :
       /\ ld.data.feeders[f].start # ""
       /\ getDayData(ld.key, FALSE).feeders[f].start = ""

(***************************************************************************)
(* Loading over stores that earlier sessions have filled.  The stores are   *)
(* drawn from records as saveDay writes them and rows as syncDayToSupabase  *)
(* leaves them; local readings are 5 / 7 / 12 and remote ones 6 / 8 / 10,   *)
(* so that the origin of a loaded value shows.                              *)
(***************************************************************************)
EntryA(k) ==
  [defaultDay(k) EXCEPT
     !.feeders["F2"] = [start |-> "5", end |-> "7"],
     !.turbines["A"] = [previous |-> "5", present |-> "7", hours |-> "12"]]

EntryB(k) ==
  [defaultDay(k) EXCEPT
     !.feeders["F2"] = [start |-> "", end |-> "7"],
     !.feeders["F5"] = [start |-> "5", end |-> ""],
     !.turbines["A"] = [previous |-> "", present |-> "7", hours |-> "24"]]

CloudA(k) ==
  [defaultDay(k) EXCEPT
     !.feeders["F2"] = [start |-> "6", end |-> "8"],
     !.turbines["A"] = [previous |-> "6", present |-> "8", hours |-> "10"]]

CloudB(k) ==
  [defaultDay(k) EXCEPT
     !.feeders["F2"] = [start |-> "", end |-> "8"],
     !.feeders["F5"] = [start |-> "6", end |-> ""],
     !.turbines["A"] = [previous |-> "", present |-> "8", hours |-> "24"]]

\* what one date holds: a local record or none, and remotely nothing, a
\* fully mirrored record, or one whose F3 and C upserts failed
Holdings(k) ==
  { [loc |-> Null, cloud |-> Null, partial |-> FALSE],
    [loc |-> EntryA(k), cloud |-> Null, partial |-> FALSE],
    [loc |-> EntryB(k), cloud |-> CloudA(k), partial |-> FALSE],
    [loc |-> EntryA(k), cloud |-> CloudB(k), partial |-> TRUE],
    [loc |-> Null, cloud |-> CloudA(k), partial |-> TRUE] }

RECURSIVE SortedKeys(_)
SortedKeys(S) ==
  IF S = {} THEN <<>>
  ELSE LET m == CHOOSE x \in S : \A y \in S : x <= y
       IN <<m>> \o SortedKeys(S \ {m})

\* the stores after earlier sessions
SampleStores ==
  \E h \in [DateKeys -> UNION {Holdings(k) : k \in DateKeys}] :
    /\ \A k \in DateKeys : h[k] \in Holdings(k)
    /\ localDay = [k \in DateKeys |->
         IF h[k].loc = Null THEN Null ELSE Stringify(h[k].loc)]
    /\ dayIndex = IF \A k \in DateKeys : h[k].loc = Null THEN Null
                  ELSE Stringify(SortedKeys({k \in DateKeys : h[k].loc # Null}))
    /\ rDaily = {k \in DateKeys : h[k].cloud # Null}
    /\ rFeeders = [k \in DateKeys |-> [f \in FeederNames |->
         IF h[k].cloud = Null \/ (h[k].partial /\ f = "F3") THEN NoRow
         ELSE FeederRow(h[k].cloud.feeders[f])]]
    /\ rTurbines = [k \in DateKeys |-> [t \in TurbineNames |->
         IF h[k].cloud = Null \/ (h[k].partial /\ t = "C") THEN NoRow
         ELSE TurbineRow(h[k].cloud.turbines[t])]]

InitLoad ==
  /\ tz \in TZOffsets
  /\ user \in {NoUser, UserId}
  /\ SampleStores
  /\ dateKey \in DateKeys
  /\ day = defaultDay(TodayKey)
  /\ loading = TRUE
  /\ syncing = FALSE
  /\ sv = IdleSave
  /\ isSaving = FALSE
  /\ notice = "none"
  /\ lk = NoCall
  /\ ld = NewLoad(dateKey, user)
  /\ budget = 0
  /\ ModalClosed

\* a direct call of the exported getDayDataWithLinkedValues, also with a
\* dateKey that is no date
CallLinked ==
  \E k \in DateKeys \cup {BadKey}, curFails \in BOOLEAN, prevFails \in BOOLEAN :
    /\ ~lk.called
    /\ lk' = LinkCall(k, curFails, prevFails)
    /\ UNCHANGED <<offscreen, tz, user, dateKey, day, loading, syncing, local, remote, ld, sv,
                   screen, budget>>

NextLoad ==
  \/ LoadLocal
  \/ LoadFetch
  \/ LoadFetchPrev
  \/ CallLinked

SpecLoad == InitLoad /\ [][NextLoad]_vars

(***************************************************************************)
(* Claims on loading and linking.                                           *)
(***************************************************************************)
\* the record the remote store holds for a date
RemoteRecord(k) == fetchDayFromSupabase(k, "none")

LocalReadings == {"5", "7", "12"}

Readings(d) ==
  UNION {{d.feeders[f].start, d.feeders[f].end} : f \in FeederNames}
  \cup UNION {{d.turbines[t].previous, d.turbines[t].present, d.turbines[t].hours} :
               t \in TurbineNames}

C7_NoSessionLoadsLocalOnly ==
  (ld.pc = "done" /\ ld.user = NoUser) =>
    /\ ld.calls = 0
    /\ ld.cloud = Null /\ ld.prevCloud = Null
    /\ lk.called /\ lk.key = ld.key
    /\ ld.data = getDayDataWithLinkedValues(ld.key, lk.curFails, lk.prevFails)
    /\ day = ld.data

C7_Witness ==
  /\ ld.pc = "done" /\ ld.user = NoUser
  /\ ld.key \in rDaily
  /\ \E f \in FeederNames :
       lk.cur.feeders[f].start = "" /\ day.feeders[f].start = "7"

\* the start / previous that linking gives today's value from the
\* previous-date value
Carried(today, fromPrev) == IF today = "" /\ fromPrev # "" THEN fromPrev ELSE today

\* C9: linking gives every feeder the start "yesterday's end if today's
\* start is empty and yesterday's end is not, else today's start", every
\* turbine the previous likewise from yesterday's present, and leaves end,
\* present, hours and dateKey as today's; yesterday's record is the one read
\* under getPreviousDateKey(dateKey), locally and remotely.
C9_CarryForwardRule ==
  /\ lk.called =>
       LET y == IF lk.prevRaw = Null THEN defaultDay(NoKey) ELSE Parse(lk.prevRaw)
       IN /\ lk.out.dateKey = lk.cur.dateKey
          /\ \A f \in FeederNames :
               /\ lk.out.feeders[f].start =
                    Carried(lk.cur.feeders[f].start, y.feeders[f].end)
               /\ lk.out.feeders[f].end = lk.cur.feeders[f].end
          /\ \A t \in TurbineNames :
               /\ lk.out.turbines[t].previous =
                    Carried(lk.cur.turbines[t].previous, y.turbines[t].present)
               /\ lk.out.turbines[t].present = lk.cur.turbines[t].present
               /\ lk.out.turbines[t].hours = lk.cur.turbines[t].hours
  /\ (ld.pc = "done" /\ ld.cloud # Null) =>
       LET y == IF ld.prevCloud = Null THEN defaultDay(NoKey) ELSE ld.prevCloud
       IN /\ ld.data.dateKey = ld.cloud.dateKey
          /\ \A f \in FeederNames :
               /\ ld.data.feeders[f].start =
                    Carried(ld.cloud.feeders[f].start, y.feeders[f].end)
               /\ ld.data.feeders[f].end = ld.cloud.feeders[f].end
          /\ \A t \in TurbineNames :
               /\ ld.data.turbines[t].previous =
                    Carried(ld.cloud.turbines[t].previous, y.turbines[t].present)
               /\ ld.data.turbines[t].present = ld.cloud.turbines[t].present
               /\ ld.data.turbines[t].hours = ld.cloud.turbines[t].hours

\* locally a blank start was filled, remotely an entered start was kept
\* although the previous date has an end
C9_Witness ==
  /\ lk.called /\ lk.prevRaw # Null
  /\ lk.cur.feeders["F2"].start = "" /\ lk.out.feeders["F2"].start = "7"
  /\ ld.pc = "done" /\ ld.cloud # Null /\ ld.prevCloud # Null
  /\ ld.cloud.feeders["F2"].start = "6" /\ ld.prevCloud.feeders["F2"].end = "8"
  /\ ld.data.feeders["F2"].start = "6"

\* C10: when no record is stored for the previous date, or the dateKey is no
\* date, or the read of the previous record fails, getDayDataWithLinkedValues
\* returns exactly what getDayData(dateKey) returned.
C10_NothingToLinkFrom ==
  (lk.called /\ lk.prevRaw = Null) =>
    /\ lk.out = lk.cur
    /\ lk.cur = getDayData(lk.key, lk.curFails)

\* the read of an existing previous record failed under a stored today
C10_Witness ==
  /\ lk.called /\ lk.prevFails /\ ~lk.curFails
  /\ getItem(lk.key) # Null
  /\ getItem(getPreviousDateKey(lk.key)) # Null
  /\ lk.out = lk.cur

(***************************************************************************)
(* Export and import of the local store (exportAllData, importData,         *)
(* getAllDaysData in client/lib/storage.ts), on a device without a session. *)
(***************************************************************************)
\* getAllDaysData: getDayData of every key of the index, in index order
getAllDaysData == [i \in 1..Len(getDayIndex(FALSE)) |-> getDayData(getDayIndex(FALSE)[i], FALSE)]

\* exportAllData: JSON.stringify({ days, settings, exportedAt })
exportAllData == Stringify([days |-> getAllDaysData])

\* the stores after saveDayData(d) for each day of a parsed bundle, in order
RECURSIVE Imported(_, _, _)
Imported(ds, recs, idx) ==
  IF ds = <<>> THEN <<recs, idx>>
  ELSE LET d == Head(ds)
           arr == IF idx = Null THEN <<>> ELSE Parse(idx)
       IN Imported(Tail(ds),
                   [recs EXCEPT ![d.dateKey] = Stringify(d)],
                   IF Includes(arr, d.dateKey) THEN idx
                   ELSE Stringify(SortKeys(Append(arr, d.dateKey))))

\* importData(jsonString)
importData(json) == Imported(Parse(json).days, localDay, dayIndex)

\* a day record written by another tool, holding only the keys it filled in
ForeignDay(k) ==
  [dateKey |-> k,
   feeders |-> [f \in EditedFeeders |-> [start |-> "5", end |-> "7"]],
   turbines |-> [t \in EditedTurbines |->
                   [previous |-> "5", present |-> "7", hours |-> "12"]]]

\* the Reports screen copies the bundle (handleCopyToClipboard)
ExportAllData ==
  /\ Settled
  /\ xp.stage = "none"
  /\ xp' = [xp EXCEPT !.stage = "exported", !.json = exportAllData,
                      !.source = localDay]
  /\ UNCHANGED <<days, del, calc, kp, tz, user, dateKey, day, loading, syncing, local,
                 remote, ld, sv, screen, lk, budget, locks, syncs, ops, loads, rtl>>

\* the app is installed afresh: empty storage, DayProvider mounts
FreshInstall ==
  /\ Settled
  /\ xp.stage = "exported"
  /\ xp' = [xp EXCEPT !.stage = "empty"]
  /\ localDay' = [k \in DateKeys |-> Null]
  /\ dayIndex' = Null
  /\ dateKey' = TodayKey
  /\ day' = defaultDay(TodayKey)
  /\ loading' = TRUE
  /\ syncing' = FALSE
  /\ sv' = IdleSave
  /\ isSaving' = FALSE
  /\ notice' = "none"
  /\ lk' = NoCall
  /\ ld' = [NewLoad(TodayKey, user) EXCEPT !.snap = Null]
  /\ UNCHANGED <<days, del, calc, kp, tz, user, remote, budget, locks, syncs, ops, loads, rtl>>

\* importData of the exported bundle into the empty store, and a second
\* time into the store the first import left
ImportData ==
  /\ Settled
  /\ xp.stage \in {"empty", "imported"}
  /\ xp.stage = "imported" => <<localDay, dayIndex>> = xp.once
  /\ localDay' = importData(xp.json)[1]
  /\ dayIndex' = importData(xp.json)[2]
  /\ xp' = IF xp.stage = "empty"
           THEN [xp EXCEPT !.stage = "imported", !.once = <<localDay', dayIndex'>>]
           ELSE [xp EXCEPT !.stage = "again", !.twice = <<localDay', dayIndex'>>]
  /\ UNCHANGED <<days, del, calc, kp, tz, user, dateKey, day, loading, syncing, remote,
                 ld, sv, screen, lk, budget, locks, syncs, ops, loads, rtl>>

\* importData of a bundle that holds one foreign record
ImportForeign ==
  \E k \in DateKeys :
    /\ budget > 0
    /\ Settled
    /\ xp.stage = "none"
    /\ localDay' = importData(Stringify([days |-> <<ForeignDay(k)>>]))[1]
    /\ dayIndex' = importData(Stringify([days |-> <<ForeignDay(k)>>]))[2]
    /\ xp' = [xp EXCEPT !.stage = "foreign"]
    /\ Spend
    /\ UNCHANGED <<days, del, calc, kp, tz, user, dateKey, day, loading, syncing,
                   remote, ld, sv, screen, lk, locks, syncs, ops, loads, rtl>>

InitBundle ==
  /\ Init
  /\ user = NoUser

NextBundle ==
  \/ EditFeeder
  \/ SetDateKey
  \/ LoadLocal
  \/ HandleSave
  \/ SaveLocalOk
  \/ SaveLocalFail
  \/ ExportAllData
  \/ FreshInstall
  \/ ImportData
  \/ ImportForeign

SpecBundle == InitBundle /\ [][NextBundle]_vars

(***************************************************************************)
(* Claims on the shape of day records and on export / import.               *)
(***************************************************************************)
Complete(d) ==
  /\ DOMAIN d.feeders = FeederNames
  /\ DOMAIN d.turbines = TurbineNames

\* C14: every DayData produced by defaultDay, getDayData,
\* getDayDataWithLinkedValues, fetchDayFromSupabase or loadDay has an entry
\* for each of F2, F3, F4, F5 and each of A, B, C, S, also when the stored
\* or imported JSON holds only some of the keys.
C14_KeyCompleteness ==
  /\ Complete(day)
  /\ \A k \in DateKeys :
       /\ Complete(defaultDay(k))
       /\ Complete(getDayData(k, FALSE))
       /\ Complete(getDayDataWithLinkedValues(k, FALSE, FALSE))
       /\ k \in rDaily => Complete(fetchDayFromSupabase(k, "none"))

\* getDayData over a store's records
RecordIn(recs, k) ==
  IF recs[k] # Null THEN Spread(defaultDay(k), Parse(recs[k])) ELSE defaultDay(k)

\* C15: for a local store reached by saves, importData(exportAllData()) into
\* an empty store gives back, for every date key the original store holds, a
\* record equal to the original one; importing the bundle a second time
\* changes nothing.
C15_ExportImportRoundTrip ==
  /\ xp.stage \in {"imported", "again"} =>
       \A k \in DateKeys :
         xp.source[k] # Null => RecordIn(xp.once[1], k) = RecordIn(xp.source, k)
  /\ xp.stage = "again" => xp.twice = xp.once

(***************************************************************************)
(* Deleting a day from the month listing (client/components/                *)
(* MonthDaysModal.tsx, deleteDayFromSupabase, deleteDayData).  A listed day *)
(* is a remote daily_data row; its id stands for its date key.              *)
(***************************************************************************)
DeleteSteps == <<"feeders", "turbines", "daily", "removeItem", "index">>

\* loadDays: the listing of the remote rows, empty when the query fails
LoadDays ==
  \E fails \in BOOLEAN :
    /\ user # NoUser
    /\ del.pc = "idle"
    /\ days' = IF fails THEN {} ELSE rDaily
    /\ UNCHANGED <<tz, user, dateKey, day, loading, syncing, local, remote, ld, sv,
                   screen, lk, budget, del, aside>>

\* confirmDelete that goes to the local removal first
ConfirmDelete_LocalFirst ==
  \E k \in days :
    /\ del.pc = "idle"
    /\ del' = [NoDelete EXCEPT !.pc = "removeItem", !.key = k, !.before = stores]
    /\ UNCHANGED <<tz, user, dateKey, day, loading, syncing, local, remote, ld, sv,
                   screen, lk, budget, days, aside>>

\* confirmDelete up to its first await: the lock is taken
ConfirmDelete ==
  \E k \in days :
    /\ del.pc = "idle"
    /\ del' = [NoDelete EXCEPT !.pc = "feeders", !.key = k, !.before = stores]
    /\ UNCHANGED <<tz, user, dateKey, day, loading, syncing, local, remote, ld, sv,
                   screen, lk, budget, days, aside>>

\* a step went through and the next one is awaited
DeleteGoesOn(step, nextPc) ==
  del' = [del EXCEPT !.pc = nextPc, !.issued = Append(@, step)]

\* a step failed: showError(delete_failed), the lock is released
DeleteFailed(step) ==
  del' = [del EXCEPT !.pc = "idle", !.issued = Append(@, step),
                     !.failedAt = step, !.outcome = "failed"]

\* delete from feeders where daily_data_id = dayId
DeleteFeeders ==
  \E fault \in SyncFaults :
    /\ del.pc = "feeders"
    /\ IF fault = "none"
       THEN /\ rFeeders' = [rFeeders EXCEPT ![del.key] = [f \in FeederNames |-> NoRow]]
            /\ DeleteGoesOn("feeders", "turbines")
       ELSE /\ UNCHANGED rFeeders
            /\ DeleteFailed("feeders")
    /\ UNCHANGED <<tz, user, dateKey, day, loading, syncing, local, rDaily, rTurbines,
                   ld, sv, screen, lk, budget, days, aside>>

\* delete from turbines where daily_data_id = dayId
DeleteTurbines ==
  \E fault \in SyncFaults :
    /\ del.pc = "turbines"
    /\ IF fault = "none"
       THEN /\ rTurbines' = [rTurbines EXCEPT ![del.key] = [t \in TurbineNames |-> NoRow]]
            /\ DeleteGoesOn("turbines", "daily")
       ELSE /\ UNCHANGED rTurbines
            /\ DeleteFailed("turbines")
    /\ UNCHANGED <<tz, user, dateKey, day, loading, syncing, local, rDaily, rFeeders,
                   ld, sv, screen, lk, budget, days, aside>>

\* the delete of the parent row whose failure is taken for success
DeleteDaily_IgnoresError ==
  \E fault \in SyncFaults :
    /\ del.pc = "daily"
    /\ IF fault = "none"
       THEN /\ rDaily' = rDaily \ {del.key}
            /\ DeleteGoesOn("daily", "removeItem")
       ELSE /\ UNCHANGED rDaily
            /\ del' = [del EXCEPT !.pc = "removeItem", !.issued = Append(@, "daily"),
                                  !.failedAt = "daily"]
    /\ UNCHANGED <<tz, user, dateKey, day, loading, syncing, local, rFeeders, rTurbines,
                   ld, sv, screen, lk, budget, days, aside>>

\* delete from daily_data where id = dayId; on success confirmDelete goes on
\* to deleteDayData
DeleteDaily ==
  \E fault \in SyncFaults :
    /\ del.pc = "daily"
    /\ IF fault = "none"
       THEN /\ rDaily' = rDaily \ {del.key}
            /\ DeleteGoesOn("daily", "removeItem")
       ELSE /\ UNCHANGED rDaily
            /\ DeleteFailed("daily")
    /\ UNCHANGED <<tz, user, dateKey, day, loading, syncing, local, rFeeders, rTurbines,
                   ld, sv, screen, lk, budget, days, aside>>

\* deleteDayData: AsyncStorage.removeItem(storageKey(dateKey)); a failure is
\* rethrown into the catch of confirmDelete
DeleteLocalRecord ==
  \E fails \in BOOLEAN :
    /\ del.pc = "removeItem"
    /\ IF fails
       THEN /\ UNCHANGED localDay
            /\ DeleteFailed("removeItem")
       ELSE /\ localDay' = [localDay EXCEPT ![del.key] = Null]
            /\ DeleteGoesOn("removeItem", "index")
    /\ UNCHANGED <<tz, user, dateKey, day, loading, syncing, dayIndex, remote,
                   ld, sv, screen, lk, budget, days, aside>>

\* arr.filter((d) => d !== dateKey)
Filter(arr, k) == SelectSeq(arr, LAMBDA d : d # k)

\* deleteDayData: the index is read, filtered and written back; then
\* setDays, showSuccess(day_deleted) and the lock is released
DeleteLocalIndex ==
  \E readFails \in BOOLEAN, writeFails \in BOOLEAN :
    /\ del.pc = "index"
    /\ IF writeFails
       THEN /\ UNCHANGED <<dayIndex, days>>
            /\ DeleteFailed("index")
       ELSE /\ dayIndex' = Stringify(Filter(getDayIndex(readFails), del.key))
            /\ days' = days \ {del.key}
            /\ del' = [del EXCEPT !.pc = "idle", !.issued = Append(@, "index"),
                                  !.outcome = "deleted"]
    /\ UNCHANGED <<tz, user, dateKey, day, loading, syncing, localDay, remote,
                   ld, sv, screen, lk, budget, aside>>

\* the dates of the month shown that hold anything
MonthDays == {TodayKey - 1, TodayKey}

\* the modal over stores that earlier sessions have filled
InitDelete ==
  /\ tz \in TZOffsets
  /\ user = UserId
  /\ SampleStores
  /\ \A k \in DateKeys \ MonthDays : localDay[k] = Null /\ k \notin rDaily
  /\ dateKey = TodayKey
  /\ day = defaultDay(TodayKey)
  /\ loading = FALSE
  /\ syncing = FALSE
  /\ sv = IdleSave
  /\ isSaving = FALSE
  /\ notice = "none"
  /\ lk = NoCall
  /\ ld = [NewLoad(TodayKey, user) EXCEPT !.pc = "done"]
  /\ budget = 0
  /\ ModalClosed

NextDelete ==
  \/ LoadDays
  \/ ConfirmDelete
  \/ DeleteFeeders
  \/ DeleteTurbines
  \/ DeleteDaily
  \/ DeleteLocalRecord
  \/ DeleteLocalIndex

SpecDelete == InitDelete /\ [][NextDelete]_vars

(***************************************************************************)
(* Claims on deleting a day.                                                *)
(***************************************************************************)
RemoteSteps == {"feeders", "turbines", "daily"}
LocalSteps == {"removeItem", "index"}

IssuedSteps == {del.issued[i] : i \in 1..Len(del.issued)}

\* C11: when a remote deletion step (feeders, turbines or the parent row)
\* fails, the delete is reported as failed, deleteDayData is not called, and
\* the local record and the local index are as they were before the delete.
C11_FailedRemoteDeleteKeepsLocal ==
  del.failedAt \in RemoteSteps =>
    /\ del.outcome = "failed"
    /\ IssuedSteps \cap LocalSteps = {}
    /\ localDay = del.before[1]
    /\ dayIndex = del.before[2]

\* the parent row's delete failed for a day that has a local record
C11_Witness ==
  /\ del.failedAt = "daily"
  /\ del.outcome = "failed"
  /\ localDay[del.key] # Null

\* C12: whenever a delete is reported as failed, the remote feeder rows,
\* turbine rows and parent row, the local record and the local index all
\* equal their values before the delete started.
C12_FailedDeleteChangesNothing ==
  del.outcome = "failed" => stores = del.before

\* C13: the steps of a delete are issued in the order feeders, turbines,
\* parent row, local record, local index; the local steps come only after
\* the three remote ones went through, and no step follows a failed one.
C13_DeleteOrdering ==
  /\ Len(del.issued) <= Len(DeleteSteps)
  /\ del.issued = SubSeq(DeleteSteps, 1, Len(del.issued))
  /\ del.failedAt # "none" =>
       /\ del.pc = "idle"
       /\ del.issued[Len(del.issued)] = del.failedAt
  /\ del.pc \in LocalSteps =>
       /\ del.key \notin rDaily
       /\ \A f \in FeederNames : rFeeders[del.key][f] = NoRow
       /\ \A t \in TurbineNames : rTurbines[del.key][t] = NoRow

\* a delete that ran through all five steps
C13_Witness ==
  /\ del.outcome = "deleted"
  /\ del.issued = DeleteSteps
  /\ del.before[1][del.key] # Null

(***************************************************************************)
(* The derivations (client/lib/storage.ts) and the surfaces that show or    *)
(* export them.  Readings are whole numbers; an hour count is carried in    *)
(* millionths, the unit of the floor Math.max(0.000001, hours).             *)
(***************************************************************************)
Micro == 1000000

\* the numerals that occur as readings
Numeral ==
  ("0" :> 0) @@ ("12" :> 12) @@ ("24" :> 24) @@ ("300" :> 300) @@ ("500" :> 500)
  @@ ("1000" :> 1000) @@ ("1072" :> 1072) @@ ("1100" :> 1100) @@ ("1120" :> 1120)
  @@ ("1192" :> 1192) @@ ("1200" :> 1200)

\* Number(v), 0 unless finite: "" is 0, any other text that is no numeral is NaN
num(v) == IF v \in DOMAIN Numeral THEN Numeral[v] ELSE 0

Abs(n) == IF n < 0 THEN -n ELSE n

\* Math.round(v * 100) / 100
round2(v) == (v * 100) \div 100

RECURSIVE SumSeq(_)
SumSeq(s) == IF s = <<>> THEN 0 ELSE Head(s) + SumSeq(Tail(s))

feederExport(d) ==
  SumSeq([i \in 1..Len(FEEDERS) |->
            num(d.feeders[FEEDERS[i]].start) - num(d.feeders[FEEDERS[i]].end)])

turbineProductionMwh(d) ==
  SumSeq([i \in 1..Len(TURBINES) |->
            num(d.turbines[TURBINES[i]].present) - num(d.turbines[TURBINES[i]].previous)])

\* mwPerHr = diff / hours is kept as the fraction rate.n / rate.d
turbineRowComputed(d, t) ==
  LET prev == num(d.turbines[t].previous)
      pres == num(d.turbines[t].present)
      text == IF d.turbines[t].hours = "" THEN "24" ELSE d.turbines[t].hours
      hours == IF num(text) * Micro < 1 THEN 1 ELSE num(text) * Micro
      diff == pres - prev
  IN [prev |-> prev, pres |-> pres, hours |-> hours, diff |-> diff,
      mwPerHr |-> [n |-> diff * Micro, d |-> hours]]

\* gasForTurbine with the bounds 3, 5 and 8 in the upper tier
gasForTurbine_Strict(p, r) ==
  IF r.n < 3 * r.d THEN p * 1000
  ELSE IF r.n < 5 * r.d THEN p * 700
  ELSE IF r.n < 8 * r.d THEN p * 500
  ELSE p * 420

gasForTurbine(p, r) ==
  IF r.n <= 3 * r.d THEN p * 1000
  ELSE IF r.n <= 5 * r.d THEN p * 700
  ELSE IF r.n <= 8 * r.d THEN p * 500
  ELSE p * 420

\* the loop over TURBINES of computeDayStats and the reduce of calculations
totalGas(d) ==
  SumSeq([i \in 1..Len(TURBINES) |->
            LET row == turbineRowComputed(d, TURBINES[i])
            IN gasForTurbine(row.diff, row.mwPerHr)])

\* computeDayStats adding the flow to the production
computeDayStats_Adds(d) ==
  [production |-> turbineProductionMwh(d), exportVal |-> feederExport(d),
   consumption |-> turbineProductionMwh(d) + feederExport(d),
   isExport |-> feederExport(d) >= 0, gasConsumed |-> totalGas(d)]

\* computeDayStats of excelExport.ts
computeDayStats(d) ==
  [production |-> turbineProductionMwh(d), exportVal |-> feederExport(d),
   consumption |-> turbineProductionMwh(d) - feederExport(d),
   isExport |-> feederExport(d) >= 0, gasConsumed |-> totalGas(d)]

\* CalculationsScreen: the calculations memo
calculations(d) ==
  LET production == turbineProductionMwh(d)
      exportVal == feederExport(d)
  IN [production |-> production, exportVal |-> exportVal,
      consumption |-> production - exportVal, totalGasM3 |-> totalGas(d)]

\* ReportsScreen: the currentDayStats memo
currentDayStats(d) ==
  LET production == turbineProductionMwh(d)
      exportVal == feederExport(d)
  IN [production |-> production, exportVal |-> exportVal,
      consumption |-> production - exportVal, isExport |-> exportVal >= 0]

\* SevenDayChart: its own computeDayStats
chartDayStats(d) ==
  LET production == turbineProductionMwh(d)
      exportVal == feederExport(d)
  IN [dateKey |-> d.dateKey, production |-> production,
      consumption |-> production - exportVal, exportVal |-> exportVal,
      isExport |-> exportVal >= 0, gasConsumed |-> totalGas(d)]

\* the rows of the feeders sheet and the feeder lines of the text report
feedersSheet(d) ==
  [f \in FeederNames |->
     [end |-> num(d.feeders[f].end),
      diff |-> num(d.feeders[f].end) - num(d.feeders[f].start)]]

\* the summary sheet and the summary lines of the text report
summarySheet(d) ==
  LET stats == computeDayStats(d)
  IN [flowLabel |-> IF stats.isExport THEN "export" ELSE "withdrawal",
      production |-> round2(stats.production),
      flow |-> round2(Abs(stats.exportVal)),
      consumption |-> round2(stats.consumption),
      gasConsumed |-> round2(stats.gasConsumed)]

\* fetchMonthDaysFromSupabase: the DaySummary of a mirrored day, its three
\* figures in thousandths (each is a sum of differences / 1000)
DaySummary(d) ==
  LET production == SumSeq([i \in 1..Len(TURBINES) |->
                      LET row == TurbineRow(d.turbines[TURBINES[i]])
                      IN num(row.present_reading) - num(row.previous_reading)])
      exportVal == SumSeq([i \in 1..Len(FEEDERS) |->
                      LET row == FeederRow(d.feeders[FEEDERS[i]])
                      IN num(row.end_reading) - num(row.start_reading)])
  IN [dateKey |-> d.dateKey, production |-> production, exportVal |-> exportVal,
      consumption |-> production - exportVal]

(***************************************************************************)
(* The monthly sheet of generateExcelReport.  Date keys are day numbers;    *)
(* the month of a key, its first seven characters, takes in MonthLen days.  *)
(***************************************************************************)
MonthLen == 2
ListedMonths == 12

monthKey(k) == (k - 1) \div MonthLen

NewMonth(mk) ==
  [month |-> mk, production |-> 0, exportTotal |-> 0, withdrawalTotal |-> 0,
   hasExport |-> FALSE, hasWithdrawal |-> FALSE, consumption |-> 0,
   gasConsumed |-> 0, daysCount |-> 0]

\* the loop over allDays filling monthlyMap
RECURSIVE monthlyMap(_, _)
monthlyMap(ds, m) ==
  IF ds = <<>> THEN m
  ELSE LET mk == monthKey(Head(ds).dateKey)
           stats == computeDayStats(Head(ds))
           cur == IF mk \in DOMAIN m THEN m[mk] ELSE NewMonth(mk)
           upd == [cur EXCEPT !.production = @ + stats.production,
                              !.consumption = @ + stats.consumption,
                              !.gasConsumed = @ + stats.gasConsumed,
                              !.daysCount = @ + 1,
                              !.exportTotal = IF stats.isExport THEN @ + stats.exportVal ELSE @,
                              !.hasExport = @ \/ stats.isExport,
                              !.withdrawalTotal = IF stats.isExport THEN @
                                                  ELSE @ + Abs(stats.exportVal),
                              !.hasWithdrawal = @ \/ ~stats.isExport]
       IN monthlyMap(Tail(ds), (mk :> upd) @@ m)

\* Array.from(monthlyMap.values()).sort(by month).slice(-12)
monthlyList(ds) ==
  LET m == monthlyMap(ds, <<>>)
      keys == SortedKeys(DOMAIN m)
      from == IF Len(keys) > ListedMonths THEN Len(keys) - ListedMonths + 1 ELSE 1
  IN [i \in 1..(Len(keys) - from + 1) |-> m[keys[from + i - 1]]]

\* mixed as soon as the list holds an export day and a withdrawal day
hasMixedModes_Across(list) ==
  /\ \E i \in 1..Len(list) : list[i].hasExport
  /\ \E i \in 1..Len(list) : list[i].hasWithdrawal

hasMixedModes(list) ==
  \E i \in 1..Len(list) : list[i].hasExport /\ list[i].hasWithdrawal

\* the columns and rows of the monthly sheet
monthlySheet(list) ==
  IF hasMixedModes(list)
  THEN [columns |-> <<"export", "withdrawal">>,
        rows |-> [i \in 1..Len(list) |->
                    <<round2(list[i].exportTotal), round2(list[i].withdrawalTotal)>>]]
  ELSE LET allExport == \A i \in 1..Len(list) :
                          list[i].hasExport /\ ~list[i].hasWithdrawal
       IN [columns |-> IF allExport THEN <<"export">> ELSE <<"withdrawal">>,
           rows |-> [i \in 1..Len(list) |->
                       <<round2(IF allExport THEN list[i].exportTotal
                                ELSE list[i].withdrawalTotal)>>]]

(***************************************************************************)
(* The derivations applied to one day's record, and the monthly sheet       *)
(* written from the records of getAllDaysData.                              *)
(***************************************************************************)
\* the readings keyed into the day shown: F2 and F3, turbines A and B
FeederEntries ==
  { [defaultDay(TodayKey).feeders EXCEPT !["F2"] = [start |-> s, end |-> e], !["F3"] = g] :
      s \in {"", "300", "500", "x"}, e \in {"", "300", "500", "x"},
      g \in {[start |-> "", end |-> ""], [start |-> "300", end |-> "500"]} }

TurbineEntries ==
  { [defaultDay(TodayKey).turbines EXCEPT
       !["A"] = [previous |-> p, present |-> q, hours |-> h], !["B"] = b] :
      p \in {"", "1000"}, q \in {"", "1072", "1100", "1120", "1192", "1200"},
      h \in {"", "0", "12", "24"},
      b \in {[previous |-> "", present |-> "", hours |-> "24"],
             [previous |-> "1000", present |-> "1072", hours |-> "24"],
             [previous |-> "1000", present |-> "1200", hours |-> "24"]} }

\* a stored day that exported, one that withdrew, one without readings
ExportDay(k) == [defaultDay(k) EXCEPT !.feeders["F2"] = [start |-> "500", end |-> "300"]]
WithdrawalDay(k) == [defaultDay(k) EXCEPT !.feeders["F2"] = [start |-> "300", end |-> "1000"]]
StoredDay(k, kind) ==
  IF kind = "export" THEN ExportDay(k)
  ELSE IF kind = "withdrawal" THEN WithdrawalDay(k)
  ELSE defaultDay(k)

\* DayProvider loaded on empty stores, nothing in hand
QuietAs(u) ==
  /\ tz \in TZOffsets
  /\ user = u
  /\ localDay = [k \in DateKeys |-> Null]
  /\ dayIndex = Null
  /\ rDaily = {}
  /\ rFeeders = [k \in DateKeys |-> [f \in FeederNames |-> NoRow]]
  /\ rTurbines = [k \in DateKeys |-> [t \in TurbineNames |-> NoRow]]
  /\ dateKey = TodayKey
  /\ day = defaultDay(TodayKey)
  /\ loading = FALSE
  /\ syncing = FALSE
  /\ sv = IdleSave
  /\ isSaving = FALSE
  /\ notice = "none"
  /\ lk = NoCall
  /\ ld = [NewLoad(TodayKey, user) EXCEPT !.pc = "done"]
  /\ budget = 0
  /\ days = {}
  /\ del = NoDelete
  /\ xp = NoBundle
  /\ locks = NoLocks
  /\ rtl = NoRTL
  /\ loads = NoLoads
  /\ ops = NoOps
  /\ syncs = NoSyncs

Quiet == QuietAs(NoUser)

\* either a day's record is on the screens, or the report is written from
\* the stored days
InitCalc ==
  /\ Quiet
  /\ kp = KeypadClosed
  /\ \/ \E fs \in FeederEntries, ts \in TurbineEntries :
          calc = [NoCalc EXCEPT
                    !.day = [dateKey |-> TodayKey, feeders |-> fs, turbines |-> ts]]
     \/ \E kinds \in [DateKeys -> {"none", "export", "withdrawal", "empty"}] :
          LET keys == SortedKeys({k \in DateKeys : kinds[k] # "none"})
          IN calc = [NoCalc EXCEPT
                       !.allDays = [i \in 1..Len(keys) |-> StoredDay(keys[i], kinds[keys[i]])]]

\* the screens and the day's sheets derive their figures from the record
Calculate ==
  /\ calc.day # Null
  /\ calc.out = Null
  /\ calc' = [calc EXCEPT !.out =
       [calculations |-> calculations(calc.day),
        currentDayStats |-> currentDayStats(calc.day),
        chart |-> chartDayStats(calc.day),
        stats |-> computeDayStats(calc.day),
        feedersSheet |-> feedersSheet(calc.day),
        summarySheet |-> summarySheet(calc.day),
        listing |-> DaySummary(calc.day)]]
  /\ UNCHANGED <<tz, user, dateKey, day, loading, syncing, local, remote, ld, sv,
                 screen, lk, budget, days, del, xp, kp, locks, syncs, ops, loads, rtl>>

\* generateExcelReport writes the monthly sheet
GenerateReport ==
  /\ calc.day = Null
  /\ calc.out = Null
  /\ calc' = [calc EXCEPT !.out =
       [monthlyList |-> monthlyList(calc.allDays),
        monthlySheet |-> monthlySheet(monthlyList(calc.allDays))]]
  /\ UNCHANGED <<tz, user, dateKey, day, loading, syncing, local, remote, ld, sv,
                 screen, lk, budget, days, del, xp, kp, locks, syncs, ops, loads, rtl>>

NextCalc ==
  \/ Calculate
  \/ GenerateReport

SpecCalc == InitCalc /\ [][NextCalc]_vars

(***************************************************************************)
(* Claims on the derivations and the reports.                               *)
(***************************************************************************)
Sign(n) == IF n > 0 THEN 1 ELSE IF n < 0 THEN -1 ELSE 0

Computed == calc.day # Null /\ calc.out # Null
Reported == calc.day = Null /\ calc.out # Null

\* C16: every surface derives the feeder flow with the sign convention of
\* feederExport, start - end with export positive: the per-feeder difference
\* of the Excel and text reports and the exportVal of the month listing's
\* DaySummary included.
C16_FlowSignOnEverySurface ==
  Computed =>
    /\ calc.out.calculations.exportVal = feederExport(calc.day)
    /\ calc.out.currentDayStats.exportVal = feederExport(calc.day)
    /\ calc.out.chart.exportVal = feederExport(calc.day)
    /\ calc.out.stats.exportVal = feederExport(calc.day)
    /\ \A f \in FeederNames :
         calc.out.feedersSheet[f].diff =
           num(calc.day.feeders[f].start) - num(calc.day.feeders[f].end)
    /\ Sign(calc.out.listing.exportVal) = Sign(feederExport(calc.day))

\* C17: on the Calculations screen, the Reports screen, the seven-day chart
\* and in the Excel / text report the consumption of a record equals
\* turbineProductionMwh(record) - feederExport(record), unparsable and empty
\* readings counting as 0.
C17_ConsumptionIdentity ==
  Computed =>
    LET consumption == turbineProductionMwh(calc.day) - feederExport(calc.day)
    IN /\ calc.out.calculations.consumption = consumption
       /\ calc.out.currentDayStats.consumption = consumption
       /\ calc.out.chart.consumption = consumption
       /\ calc.out.stats.consumption = consumption
       /\ calc.out.summarySheet.consumption = consumption

\* a record with production, a flow and an unparsable reading went through
C17_Witness ==
  /\ Computed
  /\ calc.day.feeders["F2"] = [start |-> "x", end |-> "300"]
  /\ calc.day.turbines["A"].present = "1100"
  /\ calc.day.turbines["A"].previous = "1000"
  /\ calc.out.stats.consumption = 400

\* the hours of a turbine as a whole number, "" standing for the default 24
HoursOf(d, t) == IF d.turbines[t].hours = "" THEN 24 ELSE num(d.turbines[t].hours)

\* m(rate) for rate = diff / hours, hours >= 1
Multiplier(diff, hours) ==
  IF diff <= 3 * hours THEN 1000
  ELSE IF diff <= 5 * hours THEN 700
  ELSE IF diff <= 8 * hours THEN 500
  ELSE 420

TieredGas(d, t) ==
  LET diff == num(d.turbines[t].present) - num(d.turbines[t].previous)
  IN diff * Multiplier(diff, HoursOf(d, t))

\* C18: total gas is the sum over the four turbines of diff_t * m(rate_t),
\* rate_t = diff_t / hours_t per turbine, m = 1000 up to 3, 700 up to 5, 500
\* up to 8 and 420 above, the bounds 3, 5 and 8 falling in the lower tier.
C18_TieredGasTotal ==
  (Computed /\ \A t \in TurbineNames : HoursOf(calc.day, t) >= 1) =>
    LET gas == TieredGas(calc.day, "A") + TieredGas(calc.day, "B")
               + TieredGas(calc.day, "C") + TieredGas(calc.day, "S")
    IN /\ calc.out.stats.gasConsumed = gas
       /\ calc.out.calculations.totalGasM3 = gas
       /\ calc.out.chart.gasConsumed = gas

\* previous 1000, present 1100, hours 24 on turbine A alone gives 70000
C18_Witness ==
  /\ Computed
  /\ calc.day.turbines["A"] = [previous |-> "1000", present |-> "1100", hours |-> "24"]
  /\ calc.day.turbines["B"].present = ""
  /\ calc.out.stats.gasConsumed = 70000

\* the stored days of a month, and their flows
DaysOf(mk) == SelectSeq(calc.allDays, LAMBDA d : monthKey(d.dateKey) = mk)
Flows(mk) == [i \in 1..Len(DaysOf(mk)) |-> feederExport(DaysOf(mk)[i])]
Exports(mk) == SumSeq([i \in 1..Len(Flows(mk)) |->
                         IF Flows(mk)[i] >= 0 THEN Flows(mk)[i] ELSE 0])
Withdrawals(mk) == SumSeq([i \in 1..Len(Flows(mk)) |->
                             IF Flows(mk)[i] < 0 THEN -Flows(mk)[i] ELSE 0])
MixedMonth(mk) ==
  /\ \E i \in 1..Len(Flows(mk)) : Flows(mk)[i] >= 0
  /\ \E i \in 1..Len(Flows(mk)) : Flows(mk)[i] < 0

\* C19: days are grouped by month key; in a month every day with flow >= 0
\* adds its flow to exportTotal and every day with flow < 0 its absolute
\* value to withdrawalTotal; the monthly sheet has one flow column exactly
\* when no listed month holds both export and withdrawal days, and the two
\* columns export and withdrawal otherwise.
C19_MonthlyAggregation ==
  Reported =>
    LET list == calc.out.monthlyList
        sheet == calc.out.monthlySheet
    IN /\ {list[i].month : i \in 1..Len(list)}
            = {monthKey(calc.allDays[i].dateKey) : i \in 1..Len(calc.allDays)}
       /\ \A i \in 1..Len(list) :
            /\ list[i].daysCount = Len(DaysOf(list[i].month))
            /\ list[i].exportTotal = Exports(list[i].month)
            /\ list[i].withdrawalTotal = Withdrawals(list[i].month)
       /\ Len(sheet.columns) = 1 <=> ~\E i \in 1..Len(list) : MixedMonth(list[i].month)
       /\ Len(sheet.columns) # 1 => sheet.columns = <<"export", "withdrawal">>

\* a report over an export-only month and a withdrawal-only month
C19_Witness ==
  /\ Reported
  /\ Len(calc.out.monthlyList) = 2
  /\ calc.out.monthlyList[1].exportTotal > 0
  /\ calc.out.monthlyList[2].withdrawalTotal > 0
  /\ Len(calc.out.monthlySheet.columns) = 1

(***************************************************************************)
(* The hours keypad (client/components/HoursInputField.tsx).                *)
(***************************************************************************)
\* "BS" is the backspace key; the blank key is ""
KEYS == << <<"7", "8", "9">>, <<"4", "5", "6">>, <<"1", "2", "3">>, <<"", "0", "BS">> >>

Keypad == UNION {{KEYS[r][c] : c \in 1..Len(KEYS[r])} : r \in 1..Len(KEYS)}

Digit ==
  ("0" :> 0) @@ ("1" :> 1) @@ ("2" :> 2) @@ ("3" :> 3) @@ ("4" :> 4)
  @@ ("5" :> 5) @@ ("6" :> 6) @@ ("7" :> 7) @@ ("8" :> 8) @@ ("9" :> 9)

NaN == -1

\* parseInt(val, 10) of a text of digits
RECURSIVE parseInt(_)
parseInt(val) ==
  IF val = <<>> THEN NaN
  ELSE IF Len(val) = 1 THEN Digit[val[1]]
  ELSE parseInt(SubSeq(val, 1, Len(val) - 1)) * 10 + Digit[val[Len(val)]]

\* String(n) of a whole number below 100
String(n) ==
  IF n < 10 THEN <<CHOOSE c \in DOMAIN Digit : Digit[c] = n>>
  ELSE <<CHOOSE c \in DOMAIN Digit : Digit[c] = n \div 10,
         CHOOSE c \in DOMAIN Digit : Digit[c] = n % 10>>

\* clampHours handing the typed text on unless it is empty or above 24
clampHours_Raw(val) ==
  IF val = <<>> THEN <<"2", "4">>
  ELSE IF parseInt(val) > 24 THEN <<"2", "4">>
  ELSE val

clampHours(val) ==
  IF val = <<>> THEN <<"2", "4">>
  ELSE IF parseInt(val) = NaN \/ parseInt(val) < 1 THEN <<"1">>
  ELSE IF parseInt(val) > 24 THEN <<"2", "4">>
  ELSE String(parseInt(val))

HandleOpen ==
  /\ ~kp.showKeypad
  /\ kp' = [kp EXCEPT !.tempValue = <<>>, !.showKeypad = TRUE,
                      !.prior = kp.value, !.pressed = FALSE]
  /\ UNCHANGED <<tz, user, dateKey, day, loading, syncing, local, remote, ld, sv,
                 screen, lk, budget, days, del, xp, calc, locks, syncs, ops, loads, rtl>>

HandleKeyPress ==
  \E key \in Keypad :
    /\ kp.showKeypad
    /\ kp' = IF key = "BS"
             THEN [kp EXCEPT !.tempValue = SubSeq(@, 1, Len(@) - 1)]
             ELSE IF key = "" THEN kp
             ELSE LET newValue == Append(kp.tempValue, key)
                      k == [kp EXCEPT !.pressed = TRUE]
                  IN IF parseInt(newValue) > 24
                     THEN [k EXCEPT !.tempValue = <<"2", "4">>]
                     ELSE IF Len(newValue) <= 2
                          THEN [k EXCEPT !.tempValue = newValue]
                          ELSE k
    /\ UNCHANGED <<tz, user, dateKey, day, loading, syncing, local, remote, ld, sv,
                   screen, lk, budget, days, del, xp, calc, locks, syncs, ops, loads, rtl>>

HandleClear ==
  /\ kp.showKeypad
  /\ kp' = [kp EXCEPT !.tempValue = <<>>]
  /\ UNCHANGED <<tz, user, dateKey, day, loading, syncing, local, remote, ld, sv,
                 screen, lk, budget, days, del, xp, calc, locks, syncs, ops, loads, rtl>>

\* onChangeValue(clampHours(tempValue)); setShowKeypad(false)
HandleDone ==
  /\ kp.showKeypad
  /\ kp' = [kp EXCEPT !.value = clampHours(kp.tempValue), !.showKeypad = FALSE,
                      !.last = "done", !.typed = kp.tempValue]
  /\ UNCHANGED <<tz, user, dateKey, day, loading, syncing, local, remote, ld, sv,
                 screen, lk, budget, days, del, xp, calc, locks, syncs, ops, loads, rtl>>

HandleClose ==
  /\ kp.showKeypad
  /\ kp' = [kp EXCEPT !.value = clampHours(kp.tempValue), !.showKeypad = FALSE,
                      !.last = "close", !.typed = kp.tempValue]
  /\ UNCHANGED <<tz, user, dateKey, day, loading, syncing, local, remote, ld, sv,
                 screen, lk, budget, days, del, xp, calc, locks, syncs, ops, loads, rtl>>

InitHours ==
  /\ Quiet
  /\ calc = NoCalc
  /\ kp = KeypadClosed

NextHours ==
  \/ HandleOpen
  \/ HandleKeyPress
  \/ HandleClear
  \/ HandleDone
  \/ HandleClose

SpecHours == InitHours /\ [][NextHours]_vars

(***************************************************************************)
(* Claim on the hours keypad.                                               *)
(***************************************************************************)
\* the decimal numerals of 1..24: one digit 1-9, or two digits without a
\* leading zero
HourNumerals ==
  {<<c>> : c \in DOMAIN Digit \ {"0"}}
  \cup {<<c, e>> : c \in {"1", "2"}, e \in DOMAIN Digit}

ValueOf(text) ==
  IF Len(text) = 1 THEN Digit[text[1]] ELSE 10 * Digit[text[1]] + Digit[text[2]]

\* C20: whatever was keyed in, the value HoursInputField commits on Done or
\* on close is the canonical decimal string of an integer in 1..24: "24" for
\* empty input, "1" for input that parses to 0, "24" for input above 24, and
\* String(n) for any other input n.
C20_HoursClamp ==
  kp.last # "none" =>
    /\ kp.value \in HourNumerals
    /\ ValueOf(kp.value) \in 1..24
    /\ ValueOf(kp.value) =
         IF kp.typed = <<>> THEN 24
         ELSE IF ValueOf(kp.typed) = 0 THEN 1
         ELSE IF ValueOf(kp.typed) > 24 THEN 24
         ELSE ValueOf(kp.typed)

\* "00" was keyed in and "1" committed
C20_Witness ==
  /\ kp.last = "done"
  /\ kp.typed = <<"0", "0">>
  /\ kp.value = <<"1">>

(***************************************************************************)
(* Claim on the calendar arithmetic of getPreviousDateKey.                  *)
(***************************************************************************)
\* C21: for every valid dateKey and every device time-zone offset,
\* getPreviousDateKey returns the key of exactly one calendar day earlier
\* (never two days earlier), and that is the key linking reads.
C21_PreviousDateIsYesterday ==
  (lk.called /\ lk.key \in DateKeys) =>
    /\ getPreviousDateKey(lk.key) = lk.key - 1
    /\ lk.prevRaw # Null => Parse(lk.prevRaw).dateKey = lk.key - 1

(***************************************************************************)
(* Claim on the day index after a local save.                               *)
(***************************************************************************)
\* C27: whenever saveDayData has resolved without throwing, the saved date
\* is listed in the day index; a failure to read or write the index is
\* reported as a failed save (the save is rejected) rather than swallowed.
C27_ResolvedSaveIsIndexed ==
  (sv.localDone /\ ~sv.localFailed) =>
    Includes(getDayIndex(FALSE), sv.day.dateKey)

(***************************************************************************)
(* Claim on what a successful syncDayToSupabase leaves in the remote store. *)
(***************************************************************************)
\* C28: whenever syncDayToSupabase has returned true, the remote store
\* holds the daily_data row of the date, a feeder row for each of the four
\* feeders and a turbine row for each turbine, with values equal to the
\* synced record (a failed child upsert makes the call return false).
C28_TrueSyncMirrorsEveryRow ==
  sv.sync = "true" =>
    LET k == sv.day.dateKey
    IN /\ k \in rDaily
       /\ \A f \in FeederNames : rFeeders[k][f] = FeederRow(sv.day.feeders[f])
       /\ \A t \in TurbineNames : rTurbines[k][t] = TurbineRow(sv.day.turbines[t])

(***************************************************************************)
(* Claim on dismissing the hours keypad without input.                      *)
(***************************************************************************)
\* C29: opening the hours keypad and dismissing it (Done or close) without
\* pressing any digit leaves the turbine's hours value unchanged, for every
\* prior hours value in 1..24.
C29_DismissKeepsHours ==
  (kp.last # "none" /\ ~kp.showKeypad /\ ~kp.pressed) => kp.value = kp.prior

(***************************************************************************)
(* Claim on the single flow column of the monthly sheet.                    *)
(***************************************************************************)
\* C30: whenever the monthly sheet has the single flow column, the value
\* written for each month is that month's total flow magnitude: exportTotal
\* for a month of export days only, withdrawalTotal for a month of
\* withdrawal days only, also when the months differ in sign.
C30_SingleColumnKeepsFlow ==
  (Reported /\ Len(calc.out.monthlySheet.columns) = 1) =>
    LET list == calc.out.monthlyList
        sheet == calc.out.monthlySheet
    IN \A i \in 1..Len(list) :
         sheet.rows[i] = <<round2(IF list[i].hasWithdrawal
                                  THEN Withdrawals(list[i].month)
                                  ELSE Exports(list[i].month))>>

(***************************************************************************)
(* The lock refs: deleteLockRef / deletingId of MonthDaysModal around        *)
(* confirmDelete, saveLockRef / isSaving of FeedersScreen and TurbinesScreen *)
(* around handleSave. Handlers run to their first await in one step; what    *)
(* the awaited calls do to the stores is left to the other specifications.   *)
(***************************************************************************)
\* arr without its i-th element
Without(arr, i) == SubSeq(arr, 1, i - 1) \o SubSeq(arr, i + 1, Len(arr))

\* handleDelete: ignored under the lock, else the confirmation dialog opens
HandleDelete ==
  \E k \in MonthDays :
    /\ Len(locks.alerts) < MaxEvents
    /\ locks' = IF locks.deleteLockRef \/ locks.deletingId # NoKey
                THEN [locks EXCEPT !.ignored = TRUE]
                ELSE [locks EXCEPT !.alerts = Append(@, k)]
    /\ UNCHANGED <<tz, user, dateKey, day, loading, syncing, local, remote, ld, sv,
                   screen, lk, budget, days, del, xp, calc, kp, syncs, ops, loads, rtl>>

\* the cancel button of a confirmation dialog
CancelAlert ==
  \E i \in 1..Len(locks.alerts) :
    /\ locks' = [locks EXCEPT !.alerts = Without(@, i)]
    /\ UNCHANGED <<tz, user, dateKey, day, loading, syncing, local, remote, ld, sv,
                   screen, lk, budget, days, del, xp, calc, kp, syncs, ops, loads, rtl>>

\* confirmDelete without its early return under the lock
ConfirmAlert_NoGuard ==
  \E i \in 1..Len(locks.alerts) :
    /\ Len(locks.deleting) < MaxEvents
    /\ locks' = [locks EXCEPT !.alerts = Without(@, i),
                              !.deleteLockRef = TRUE,
                              !.deletingId = locks.alerts[i],
                              !.deleting = Append(@, [key |-> locks.alerts[i],
                                                      pc |-> "remote"])]
    /\ UNCHANGED <<tz, user, dateKey, day, loading, syncing, local, remote, ld, sv,
                   screen, lk, budget, days, del, xp, calc, kp, syncs, ops, loads, rtl>>

\* the destructive button of a dialog: confirmDelete(day) up to its first
\* await, returning at once under the lock, else taking it
ConfirmAlert ==
  \E i \in 1..Len(locks.alerts) :
    /\ locks' = IF locks.deleteLockRef \/ locks.deletingId # NoKey
                THEN [locks EXCEPT !.alerts = Without(@, i), !.ignored = TRUE]
                ELSE [locks EXCEPT !.alerts = Without(@, i),
                                   !.deleteLockRef = TRUE,
                                   !.deletingId = locks.alerts[i],
                                   !.deleting = Append(@, [key |-> locks.alerts[i],
                                                           pc |-> "remote"])]
    /\ UNCHANGED <<tz, user, dateKey, day, loading, syncing, local, remote, ld, sv,
                   screen, lk, budget, days, del, xp, calc, kp, syncs, ops, loads, rtl>>

\* the finally of confirmDelete: setDeletingId(null), the ref back to false
DeleteFinally(i, how) ==
  locks' = [locks EXCEPT !.deleting = Without(@, i),
                         !.deletingId = NoKey,
                         !.deleteLockRef = FALSE,
                         !.released = @ \cup {how}]

\* await deleteDayFromSupabase(day.id) gives true, gives false or throws
AwaitDeleteRemote ==
  \E i \in 1..Len(locks.deleting), r \in {"true", "false", "throw"} :
    /\ locks.deleting[i].pc = "remote"
    /\ IF r = "true"
       THEN locks' = [locks EXCEPT !.deleting[i].pc = "local"]
       ELSE DeleteFinally(i, IF r = "false" THEN "delete failed" ELSE "delete threw")
    /\ UNCHANGED <<tz, user, dateKey, day, loading, syncing, local, remote, ld, sv,
                   screen, lk, budget, days, del, xp, calc, kp, syncs, ops, loads, rtl>>

\* await deleteDayData(day.dateKey) resolves or throws
AwaitDeleteLocal ==
  \E i \in 1..Len(locks.deleting), r \in {"ok", "throw"} :
    /\ locks.deleting[i].pc = "local"
    /\ DeleteFinally(i, IF r = "ok" THEN "deleted" ELSE "delete threw")
    /\ UNCHANGED <<tz, user, dateKey, day, loading, syncing, local, remote, ld, sv,
                   screen, lk, budget, days, del, xp, calc, kp, syncs, ops, loads, rtl>>

\* handleSave of a screen up to await saveDay(): returning at once under
\* the lock, else taking it
PressSave ==
  \E s \in Screens :
    /\ locks' = IF locks.saveLockRef[s] \/ locks.isSaving[s]
                THEN [locks EXCEPT !.ignored = TRUE]
                ELSE [locks EXCEPT !.saveLockRef[s] = TRUE,
                                   !.isSaving[s] = TRUE,
                                   !.saving[s] = @ + 1]
    /\ UNCHANGED <<tz, user, dateKey, day, loading, syncing, local, remote, ld, sv,
                   screen, lk, budget, days, del, xp, calc, kp, syncs, ops, loads, rtl>>

\* await saveDay() resolves or rejects; the finally of handleSave
AwaitSaveDay ==
  \E s \in Screens, r \in {"saved", "save failed"} :
    /\ locks.saving[s] > 0
    /\ locks' = [locks EXCEPT !.saving[s] = @ - 1,
                              !.isSaving[s] = FALSE,
                              !.saveLockRef[s] = FALSE,
                              !.released = @ \cup {r}]
    /\ UNCHANGED <<tz, user, dateKey, day, loading, syncing, local, remote, ld, sv,
                   screen, lk, budget, days, del, xp, calc, kp, syncs, ops, loads, rtl>>

InitLocks ==
  /\ Quiet
  /\ calc = NoCalc
  /\ kp = KeypadClosed

NextLocks ==
  \/ HandleDelete
  \/ CancelAlert
  \/ ConfirmAlert
  \/ AwaitDeleteRemote
  \/ AwaitDeleteLocal
  \/ PressSave
  \/ AwaitSaveDay

SpecLocks == InitLocks /\ [][NextLocks]_vars

\* C23: the delete lock of MonthDaysModal is held exactly while a
\* confirmDelete call is executing and the save lock of each entry screen
\* exactly while its handleSave is executing: at most one of each is in
\* flight, and once a call has ended (deleted, failed or thrown) its lock is
\* free again.
C23_LocksHeldWhileRunning ==
  /\ Len(locks.deleting) <= 1
  /\ locks.deleteLockRef <=> Len(locks.deleting) = 1
  /\ locks.deleteLockRef =>
       locks.deletingId = locks.deleting[1].key
  /\ ~locks.deleteLockRef => locks.deletingId = NoKey
  /\ \A s \in Screens :
       /\ locks.saving[s] <= 1
       /\ locks.saveLockRef[s] <=> locks.saving[s] = 1
       /\ locks.isSaving[s] <=> locks.saveLockRef[s]

\* a delete is running, a further trigger was ignored, a second dialog is
\* still open, and earlier calls ended in each of the ways
C23_Witness ==
  /\ Len(locks.deleting) = 1
  /\ locks.deleteLockRef
  /\ locks.ignored
  /\ Len(locks.alerts) > 0
  /\ locks.released = {"deleted", "delete failed", "delete threw", "saved", "save failed"}
  /\ locks.saving["feeders"] = 1
  /\ locks.saving["turbines"] = 0

(***************************************************************************)
(* syncDayToSupabase called side by side for one user and one date, every   *)
(* request answered by the server without a network error. Each request is  *)
(* one step; the tables keep the UNIQUE constraints of supabase-schema.sql. *)
(***************************************************************************)
\* syncDayToSupabase(userId, day) is called
CallSync ==
  \E c \in Callers, d \in {EntryA(TodayKey), EntryB(TodayKey)} :
    /\ syncs[c].pc \in {"idle", "done"}
    /\ syncs' = [syncs EXCEPT ![c] = [pc |-> "select", day |-> d, at |-> 1,
                                      result |-> "none"]]
    /\ UNCHANGED <<tz, user, dateKey, day, loading, syncing, local, remote, ld, sv,
                   screen, lk, budget, days, del, xp, calc, kp, locks, ops, loads, rtl>>

\* select id from daily_data .eq(user_id) .eq(date_key) .single(): the row,
\* or PGRST116 when there is none
SelectDaily ==
  \E c \in Callers :
    /\ syncs[c].pc = "select"
    /\ syncs' = [syncs EXCEPT ![c].pc = IF syncs[c].day.dateKey \in rDaily
                                        THEN "feeders" ELSE "insert"]
    /\ UNCHANGED <<tz, user, dateKey, day, loading, syncing, local, remote, ld, sv,
                   screen, lk, budget, days, del, xp, calc, kp, locks, ops, loads, rtl>>

\* insert into daily_data (user_id, date_key): refused by UNIQUE(user_id,
\* date_key) when the row exists by now, and the call returns false
InsertDaily ==
  \E c \in Callers :
    /\ syncs[c].pc = "insert"
    /\ IF syncs[c].day.dateKey \in rDaily
       THEN /\ syncs' = [syncs EXCEPT ![c].pc = "done", ![c].result = "false"]
            /\ UNCHANGED rDaily
       ELSE /\ rDaily' = rDaily \cup {syncs[c].day.dateKey}
            /\ syncs' = [syncs EXCEPT ![c].pc = "feeders"]
    /\ UNCHANGED <<tz, user, dateKey, day, loading, syncing, local, rFeeders, rTurbines,
                   ld, sv, screen, lk, budget, days, del, xp, calc, kp, locks, ops, loads,
                   rtl>>

\* one pass of the loop over FEEDERS: upsert on (daily_data_id, feeder_name)
UpsertFeeder ==
  \E c \in Callers :
    /\ syncs[c].pc = "feeders"
    /\ LET d == syncs[c].day
           f == FEEDERS[syncs[c].at]
       IN rFeeders' = [rFeeders EXCEPT ![d.dateKey][f] = FeederRow(d.feeders[f])]
    /\ syncs' = IF syncs[c].at < Len(FEEDERS)
                THEN [syncs EXCEPT ![c].at = @ + 1]
                ELSE [syncs EXCEPT ![c].pc = "turbines", ![c].at = 1]
    /\ UNCHANGED <<tz, user, dateKey, day, loading, syncing, local, rDaily, rTurbines,
                   ld, sv, screen, lk, budget, days, del, xp, calc, kp, locks, ops, loads,
                   rtl>>

\* one pass of the loop over TURBINES; after the last one, return true
UpsertTurbine ==
  \E c \in Callers :
    /\ syncs[c].pc = "turbines"
    /\ LET d == syncs[c].day
           t == TURBINES[syncs[c].at]
       IN rTurbines' = [rTurbines EXCEPT ![d.dateKey][t] = TurbineRow(d.turbines[t])]
    /\ syncs' = IF syncs[c].at < Len(TURBINES)
                THEN [syncs EXCEPT ![c].at = @ + 1]
                ELSE [syncs EXCEPT ![c].pc = "done", ![c].result = "true"]
    /\ UNCHANGED <<tz, user, dateKey, day, loading, syncing, local, rDaily, rFeeders,
                   ld, sv, screen, lk, budget, days, del, xp, calc, kp, locks, ops, loads,
                   rtl>>

InitSync ==
  /\ QuietAs(UserId)
  /\ calc = NoCalc
  /\ kp = KeypadClosed

NextSync ==
  \/ CallSync
  \/ SelectDaily
  \/ InsertDaily
  \/ UpsertFeeder
  \/ UpsertTurbine

SpecSync == InitSync /\ [][NextSync]_vars

\* C22: under any interleaving of syncDayToSupabase calls for one user and
\* date, with no network error, every call returns true, and once a call
\* has returned the date has its daily_data row and one feeder row and one
\* turbine row for every name.
C22_ConcurrentSyncsAllSucceed ==
  \A c \in Callers :
    syncs[c].pc = "done" =>
      /\ syncs[c].result = "true"
      /\ syncs[c].day.dateKey \in rDaily
      /\ \A f \in FeederNames : rFeeders[syncs[c].day.dateKey][f].has
      /\ \A t \in TurbineNames : rTurbines[syncs[c].day.dateKey][t].has

(***************************************************************************)
(* saveDayData and deleteDayData called side by side on the local store,    *)
(* every AsyncStorage request succeeding. Each awaited request is one step. *)
(***************************************************************************)
\* saveDayData(day) or deleteDayData(dateKey) is called
CallStore ==
  \E w \in Tasks, kind \in {"save", "delete"}, k \in MonthDays :
    /\ ops[w].pc \in {"idle", "done"}
    /\ ops' = [ops EXCEPT ![w] = [kind |-> kind, pc |-> "record", key |-> k, arr |-> <<>>]]
    /\ UNCHANGED <<tz, user, dateKey, day, loading, syncing, local, remote, ld, sv,
                   screen, lk, budget, days, del, xp, calc, kp, locks, syncs, loads, rtl>>

\* await AsyncStorage.setItem(storageKey, JSON.stringify(day)), or
\* await AsyncStorage.removeItem(storageKey)
StoreRecord ==
  \E w \in Tasks :
    /\ ops[w].pc = "record"
    /\ localDay' = [localDay EXCEPT ![ops[w].key] =
                      IF ops[w].kind = "save" THEN Stringify(EntryA(ops[w].key))
                      ELSE Null]
    /\ ops' = [ops EXCEPT ![w].pc = "read"]
    /\ UNCHANGED <<tz, user, dateKey, day, loading, syncing, dayIndex, remote, ld, sv,
                   screen, lk, budget, days, del, xp, calc, kp, locks, syncs, loads, rtl>>

\* const arr = await getDayIndex(): upsertDayIndex pushes and sorts unless
\* the key is listed, deleteDayData filters
ReadIndex ==
  \E w \in Tasks :
    /\ ops[w].pc = "read"
    /\ LET arr == getDayIndex(FALSE)
           k == ops[w].key
       IN ops' = IF ops[w].kind = "delete"
                 THEN [ops EXCEPT ![w].pc = "write", ![w].arr = Filter(arr, k)]
                 ELSE IF Includes(arr, k)
                      THEN [ops EXCEPT ![w].pc = "done"]
                      ELSE [ops EXCEPT ![w].pc = "write",
                                       ![w].arr = SortKeys(Append(arr, k))]
    /\ UNCHANGED <<tz, user, dateKey, day, loading, syncing, local, remote, ld, sv,
                   screen, lk, budget, days, del, xp, calc, kp, locks, syncs, loads, rtl>>

\* await AsyncStorage.setItem(listKey(), JSON.stringify(arr))
WriteIndex ==
  \E w \in Tasks :
    /\ ops[w].pc = "write"
    /\ dayIndex' = Stringify(ops[w].arr)
    /\ ops' = [ops EXCEPT ![w].pc = "done"]
    /\ UNCHANGED <<tz, user, dateKey, day, loading, syncing, localDay, remote, ld, sv,
                   screen, lk, budget, days, del, xp, calc, kp, locks, syncs, loads, rtl>>

InitStore ==
  /\ Quiet
  /\ calc = NoCalc
  /\ kp = KeypadClosed

NextStore ==
  \/ CallStore
  \/ StoreRecord
  \/ ReadIndex
  \/ WriteIndex

SpecStore == InitStore /\ [][NextStore]_vars

\* C26: after any interleaving of saveDayData and deleteDayData calls has
\* run to completion without storage errors, the day index lists exactly
\* the dates that have a stored record, ascending and without duplicates.
C26_IndexMatchesRecords ==
  (\A w \in Tasks : ops[w].pc \in {"idle", "done"}) =>
    getDayIndex(FALSE) = SortedKeys({k \in DateKeys : localDay[k] # Null})

(***************************************************************************)
(* DayProvider with loadDay calls overlapping: the effect on [dateKey,      *)
(* user?.id] starts a loadDay at every change, whatever is still in flight, *)
(* and every loadDay ends in setDay(data). No request fails.                *)
(***************************************************************************)
\* what loadDay() started for dateKey k and user u hands to setDay
loadDay(k, u) ==
  LET data == getDayDataWithLinkedValues(k, FALSE, FALSE)
      cloudData == IF u = NoUser THEN Null ELSE fetchDayFromSupabase(k, "none")
      prevDateKey == getPreviousDateKey(k)
      prevCloudData == IF prevDateKey = NoKey THEN Null
                       ELSE fetchDayFromSupabase(prevDateKey, "none")
  IN IF cloudData = Null THEN data
     ELSE IF prevCloudData = Null THEN cloudData
     ELSE cloudLinked(cloudData, prevCloudData)

\* setDateKey(k): the effect runs loadDay with the new dateKey
ChangeDate ==
  \E k \in MonthDays :
    /\ k # dateKey
    /\ Len(loads.inflight) < MaxEvents
    /\ dateKey' = k
    /\ loading' = TRUE
    /\ loads' = [loads EXCEPT !.inflight = Append(@, [key |-> k, user |-> user])]
    /\ UNCHANGED <<tz, user, day, syncing, local, remote, ld, sv, screen, lk, budget,
                   days, del, xp, calc, kp, locks, syncs, ops, rtl>>

\* the session appears or disappears: the effect runs loadDay
ChangeUser ==
  \E u \in {NoUser, UserId} :
    /\ u # user
    /\ Len(loads.inflight) < MaxEvents
    /\ user' = u
    /\ loading' = TRUE
    /\ loads' = [loads EXCEPT !.inflight = Append(@, [key |-> dateKey, user |-> u])]
    /\ UNCHANGED <<tz, dateKey, day, syncing, local, remote, ld, sv, screen, lk, budget,
                   days, del, xp, calc, kp, locks, syncs, ops, rtl>>

\* one of the loadDay calls in flight comes to its end: setDay(data),
\* setLoading(false)
FinishLoad ==
  \E i \in 1..Len(loads.inflight) :
    /\ day' = loadDay(loads.inflight[i].key, loads.inflight[i].user)
    /\ loading' = FALSE
    /\ loads' = [loads EXCEPT !.inflight = Without(@, i)]
    /\ UNCHANGED <<tz, user, dateKey, syncing, local, remote, ld, sv, screen, lk, budget,
                   days, del, xp, calc, kp, locks, syncs, ops, rtl>>

\* the first saveDay, once every load has ended: dayToSave = { ...day,
\* dateKey } goes to the local store and, with a session, to the remote one
SaveDay ==
  LET dayToSave == [day EXCEPT !.dateKey = dateKey]
  IN /\ loads.inflight = <<>>
     /\ loads.saved.under = NoKey
     /\ localDay' = [localDay EXCEPT ![dateKey] = Stringify(dayToSave)]
     /\ dayIndex' = upsertDayIndex(dateKey, FALSE, FALSE)
     /\ IF user = NoUser THEN UNCHANGED remote
        ELSE /\ rDaily' = rDaily \cup {dateKey}
             /\ rFeeders' = [rFeeders EXCEPT ![dateKey] =
                   [f \in FeederNames |-> FeederRow(dayToSave.feeders[f])]]
             /\ rTurbines' = [rTurbines EXCEPT ![dateKey] =
                   [t \in TurbineNames |-> TurbineRow(dayToSave.turbines[t])]]
     /\ loads' = [loads EXCEPT !.saved = [from |-> day.dateKey, under |-> dateKey]]
     /\ UNCHANGED <<tz, user, dateKey, day, loading, syncing, ld, sv, screen, lk, budget,
                    days, del, xp, calc, kp, locks, syncs, ops, rtl>>

\* DayProvider after its first loadDay, over stores that hold yesterday's
\* and today's records locally and today's remotely
InitRace ==
  /\ tz \in TZOffsets
  /\ user \in {NoUser, UserId}
  /\ localDay = [k \in DateKeys |->
       IF k \in MonthDays THEN Stringify(IF k = TodayKey THEN EntryB(k) ELSE EntryA(k))
       ELSE Null]
  /\ dayIndex = Stringify(SortedKeys(MonthDays))
  /\ rDaily = {TodayKey}
  /\ rFeeders = [k \in DateKeys |-> [f \in FeederNames |->
       IF k = TodayKey THEN FeederRow(CloudA(k).feeders[f]) ELSE NoRow]]
  /\ rTurbines = [k \in DateKeys |-> [t \in TurbineNames |->
       IF k = TodayKey THEN TurbineRow(CloudA(k).turbines[t]) ELSE NoRow]]
  /\ dateKey = TodayKey
  /\ day = loadDay(TodayKey, user)
  /\ loading = FALSE
  /\ syncing = FALSE
  /\ sv = IdleSave
  /\ isSaving = FALSE
  /\ notice = "none"
  /\ lk = NoCall
  /\ ld = [NewLoad(TodayKey, user) EXCEPT !.pc = "done"]
  /\ budget = 0
  /\ ModalClosed

NextRace ==
  \/ ChangeDate
  \/ ChangeUser
  \/ FinishLoad
  \/ SaveDay

SpecRace == InitRace /\ [][NextRace]_vars

\* C25: when the dateKey or the user id changes while an earlier loadDay is
\* in flight, then once all loads have ended the day in memory is the record
\* loaded for the selected dateKey and the present user, and a following
\* saveDay stores under the current dateKey readings loaded for that dateKey.
C25_NoStaleLoadWins ==
  /\ loads.inflight = <<>> => day = loadDay(dateKey, user)
  /\ loads.saved.from = loads.saved.under

(***************************************************************************)
(* The RTL bootstrap (client/lib/rtl-bootstrap.ts) on a native platform     *)
(* (Platform.OS is not "web"), over successive launches. AsyncStorage       *)
(* answers every request; a reload may fail, and a reload or a restart may  *)
(* leave the native direction as it was.                                    *)
(***************************************************************************)
isRTLLanguage(lang) == lang = "ar"

getTargetDirection(lang) == IF isRTLLanguage(lang) THEN "rtl" ELSE "ltr"

\* reloadApp(): the reload fails (caught), or the app starts anew with the
\* forced direction applied or not
ReloadOutcomes == {"failed", "applied", "same"}

\* the app is installed on a left-to-right or a right-to-left device
Install ==
  \E native \in BOOLEAN :
    /\ rtl.phase = "none"
    /\ rtl' = [rtl EXCEPT !.phase = "launch", !.isRTL = native, !.forced = native]
    /\ UNCHANGED <<tz, user, dateKey, day, loading, syncing, local, remote, ld, sv,
                   screen, lk, budget, days, del, xp, calc, kp, locks, syncs, ops, loads>>

\* what initializeRTL leaves when it reloads: language and direction
\* persisted, the flag set, then reloadApp()
Reloading(r, language, outcome, by) ==
  LET kept == [r EXCEPT !.lang = language,
                        !.dir = getTargetDirection(language),
                        !.forced = isRTLLanguage(language),
                        !.attempt = TRUE,
                        !.setBy = by]
  IN IF outcome = "failed" THEN [kept EXCEPT !.phase = "running"]
     ELSE [kept EXCEPT !.phase = "launch",
                       !.isRTL = IF outcome = "applied" THEN kept.forced ELSE r.isRTL]

\* initializeRTL without the test of the reload-attempt flag
initializeRTL_NoProtection(r, outcome) ==
  LET language == IF r.lang = "ar" THEN "ar" ELSE "en"
      shouldBeRTL == isRTLLanguage(language)
      targetDir == getTargetDirection(language)
      f == [attempt |-> r.attempt, matched |-> r.isRTL = shouldBeRTL,
            dirOk |-> r.dir = targetDir, setBy |-> r.setBy]
  IN IF r.isRTL = shouldBeRTL
     THEN [r EXCEPT !.lang = language, !.dir = targetDir, !.attempt = FALSE,
                    !.setBy = "none", !.phase = "running", !.chain = 0, !.found = f,
                    !.result = [manual |-> FALSE, reloaded |-> FALSE, attempt |-> FALSE]]
     ELSE [Reloading(r, language, outcome, "launch") EXCEPT
             !.chain = IF outcome = "failed" \/ r.chain >= MaxEvents THEN 0 ELSE r.chain + 1,
             !.found = f,
             !.result = [manual |-> FALSE, reloaded |-> outcome # "failed",
                         attempt |-> TRUE]]

\* initializeRTL() of one launch, r being rtl; outcome is what its
\* reloadApp() comes to when it gets there
initializeRTL(r, outcome) ==
  LET language == IF r.lang = "ar" THEN "ar" ELSE "en"
      shouldBeRTL == isRTLLanguage(language)
      targetDir == getTargetDirection(language)
      f == [attempt |-> r.attempt, matched |-> r.isRTL = shouldBeRTL,
            dirOk |-> r.dir = targetDir, setBy |-> r.setBy]
  IN IF r.isRTL = shouldBeRTL
     THEN [r EXCEPT !.lang = language, !.dir = targetDir, !.attempt = FALSE,
                    !.setBy = "none", !.phase = "running", !.chain = 0, !.found = f,
                    !.result = [manual |-> FALSE, reloaded |-> FALSE, attempt |-> FALSE]]
     ELSE IF r.attempt /\ r.dir = targetDir
     THEN [r EXCEPT !.forced = shouldBeRTL, !.attempt = FALSE, !.setBy = "none",
                    !.phase = "restart", !.chain = 0, !.found = f,
                    !.result = [manual |-> TRUE, reloaded |-> FALSE, attempt |-> FALSE]]
     ELSE [Reloading(r, language, outcome, "launch") EXCEPT
             !.chain = IF outcome = "failed" THEN 0 ELSE r.chain + 1,
             !.found = f,
             !.result = [manual |-> FALSE, reloaded |-> outcome # "failed",
                         attempt |-> TRUE]]

\* LanguageProvider mounts: await initializeRTL()
Launch ==
  \E outcome \in ReloadOutcomes :
    /\ rtl.phase = "launch"
    /\ rtl' = initializeRTL(rtl, outcome)
    /\ UNCHANGED <<tz, user, dateKey, day, loading, syncing, local, remote, ld, sv,
                   screen, lk, budget, days, del, xp, calc, kp, locks, syncs, ops, loads>>

\* the user closes the app and opens it again
Restart ==
  \E applied \in BOOLEAN :
    /\ rtl.phase \in {"running", "restart"}
    /\ rtl' = [rtl EXCEPT !.phase = "launch", !.chain = 0,
                          !.isRTL = IF applied THEN rtl.forced ELSE rtl.isRTL]
    /\ UNCHANGED <<tz, user, dateKey, day, loading, syncing, local, remote, ld, sv,
                   screen, lk, budget, days, del, xp, calc, kp, locks, syncs, ops, loads>>

\* setLanguage(newLang) of LanguageProvider: switchLanguage, and
\* saveLanguageOnly when no reload is under way
SetLanguage ==
  \E newLang \in {"en", "ar"}, outcome \in ReloadOutcomes :
    /\ rtl.phase = "running"
    /\ rtl' = IF rtl.isRTL = isRTLLanguage(newLang)
              THEN [rtl EXCEPT !.lang = newLang]
              ELSE [Reloading(rtl, newLang, outcome, "switch") EXCEPT !.chain = 0]
    /\ UNCHANGED <<tz, user, dateKey, day, loading, syncing, local, remote, ld, sv,
                   screen, lk, budget, days, del, xp, calc, kp, locks, syncs, ops, loads>>

InitRTL ==
  /\ Quiet
  /\ calc = NoCalc
  /\ kp = KeypadClosed

NextRTL ==
  \/ Install
  \/ Launch
  \/ Restart
  \/ SetLanguage

SpecRTL == InitRTL /\ [][NextRTL]_vars

\* what the last initializeRTL found and returned
Launched == rtl.phase # "none" /\ (rtl.found.attempt \/ rtl.found.dirOk \/ rtl.result.attempt
                                     \/ rtl.phase # "launch" \/ rtl.chain > 0)

====
